---- MODULE Spec2Model ----
(***************************************************************************)
(* A model of droid-factory's marketplace pipeline (lib/marketplace.js and *)
(* lib/marketplace-planner.js): loadMarketplace, normalizePlugins,         *)
(* resolvePluginSource, the local / GitHub / GitLab scanners,              *)
(* discoverPlugins, flattenName and computeMarketplacePlan.                *)
(*                                                                         *)
(* Strings of the program are sequences of one-character strings, so that  *)
(* indexOf, split, join and the regular expressions of the source are      *)
(* computed and not assumed.  A path or URL is such a string.              *)
(***************************************************************************)
EXTENDS Integers, Sequences, FiniteSets, TLC

\* ------------------------------------------------------------------------
\* Bounds of the model
\* ------------------------------------------------------------------------

\* Longest path below the resource-type directory (in characters) that the
\* flattening specification enumerates.
MaxRelLen == 4

\* ------------------------------------------------------------------------
\* String literals of the source
\* ------------------------------------------------------------------------

S_commands == <<"c","o","m","m","a","n","d","s">>
S_agents == <<"a","g","e","n","t","s">>
S_hooks == <<"h","o","o","k","s">>
S_skills == <<"s","k","i","l","l","s">>
S_md == <<".","m","d">>
S_SKILLmd == <<"S","K","I","L","L",".","m","d">>
S_rawHost == <<"h","t","t","p","s",":","/","/","r","a","w",".","g","i","t","h","u","b","u","s","e","r","c","o","n","t","e","n","t",".","c","o","m">>
S_gitlabHost == <<"h","t","t","p","s",":","/","/","g","i","t","l","a","b",".","c","o","m">>
S_claudePlugin == <<".","c","l","a","u","d","e","-","p","l","u","g","i","n">>
S_marketplaceJson == <<"m","a","r","k","e","t","p","l","a","c","e",".","j","s","o","n">>
S_dunder == <<"_","_">>
S_slash == <<"/">>

\* ------------------------------------------------------------------------
\* JavaScript string primitives used by the source
\* ------------------------------------------------------------------------

MinOf(I) == CHOOSE i \in I : \A j \in I : i <= j
MaxOf(I) == CHOOSE i \in I : \A j \in I : j <= i

\* s.indexOf(needle), 1-based; 0 when absent (JavaScript's -1).
IndexOf(s, needle) ==
  LET I == {i \in 1..(Len(s) - Len(needle) + 1) : SubSeq(s, i, i + Len(needle) - 1) = needle}
  IN IF I = {} THEN 0 ELSE MinOf(I)

StartsWith(s, p) == Len(s) >= Len(p) /\ SubSeq(s, 1, Len(p)) = p
EndsWith(s, p) == Len(s) >= Len(p) /\ SubSeq(s, Len(s) - Len(p) + 1, Len(s)) = p

\* s.slice(k) with a 0-based k: the string from character k+1 on.
SliceFrom(s, k) == SubSeq(s, k + 1, Len(s))

\* s.replace(/\\/g, '/')
BackslashesToSlashes(s) == [i \in 1..Len(s) |-> IF s[i] = "\\" THEN "/" ELSE s[i]]

\* s.replace(/\/+/, '/'): no g flag, so only the FIRST run of slashes collapses.
CollapseFirstSlashRun(s) ==
  LET i == IndexOf(s, S_slash)
  IN IF i = 0 THEN s
     ELSE LET after == {j \in i..Len(s) : \A k \in i..j : s[k] = "/"}
              j == MaxOf(after)
          IN SubSeq(s, 1, i) \o SubSeq(s, j + 1, Len(s))

\* s.replace(/^\//, '') and s.replace(/\/$/, ''): one slash at most.
StripLeadingSlash(s) == IF Len(s) > 0 /\ s[1] = "/" THEN Tail(s) ELSE s
StripTrailingSlash(s) == IF Len(s) > 0 /\ s[Len(s)] = "/" THEN SubSeq(s, 1, Len(s) - 1) ELSE s

\* /\.md$/i.test(s)
IsMarkdownName(s) ==
  /\ Len(s) >= 3
  /\ s[Len(s) - 2] = "."
  /\ s[Len(s) - 1] \in {"m", "M"}
  /\ s[Len(s)] \in {"d", "D"}

\* s.replace(/\.md$/i, '')
StripMdExt(s) == IF IsMarkdownName(s) THEN SubSeq(s, 1, Len(s) - 3) ELSE s

\* s.split('/'): the pieces between slashes, empty pieces kept.
RECURSIVE SplitSlash(_)
SplitSlash(s) ==
  LET i == IndexOf(s, S_slash)
  IN IF i = 0 THEN <<s>>
     ELSE <<SubSeq(s, 1, i - 1)>> \o SplitSlash(SubSeq(s, i + 1, Len(s)))

\* parts.filter(Boolean): the empty string is falsy.
RECURSIVE FilterNonEmpty(_)
FilterNonEmpty(parts) ==
  IF parts = <<>> THEN <<>>
  ELSE IF Head(parts) = <<>> THEN FilterNonEmpty(Tail(parts))
  ELSE <<Head(parts)>> \o FilterNonEmpty(Tail(parts))

\* parts.join(sep)
RECURSIVE Join(_, _)
Join(parts, sep) ==
  IF parts = <<>> THEN <<>>
  ELSE IF Len(parts) = 1 THEN parts[1]
  ELSE parts[1] \o sep \o Join(Tail(parts), sep)

\* path.basename(s) (posix): the last segment, trailing slashes ignored.
Basename(s) ==
  LET nonSlash == {i \in 1..Len(s) : s[i] # "/"}
  IN IF nonSlash = {} THEN <<>>
     ELSE LET end == MaxOf(nonSlash)
              before == {i \in 1..end : s[i] = "/"}
              start == IF before = {} THEN 1 ELSE MaxOf(before) + 1
          IN SubSeq(s, start, end)

\* ------------------------------------------------------------------------
\* marketplace-planner.js: flattenName
\* ------------------------------------------------------------------------

\* flattenName(src, kind)
flattenName(src, kind) ==
  LET s == CollapseFirstSlashRun(BackslashesToSlashes(src))
      needle == S_slash \o kind \o S_slash
      idx == IndexOf(s, needle)
      rel0 == IF idx # 0
              THEN StripTrailingSlash(StripLeadingSlash(SliceFrom(s, idx - 1 + Len(needle))))
              ELSE <<>>
      rel1 == IF rel0 = <<>> THEN StripTrailingSlash(StripMdExt(Basename(s))) ELSE rel0
      rel == StripMdExt(rel1)
  IN Join(FilterNonEmpty(SplitSlash(rel)), S_dunder)

\* ------------------------------------------------------------------------
\* Node's path module (posix)
\* ------------------------------------------------------------------------

S_dot == <<".">>
S_dotdot == <<".",".">>

\* normalizeString: "." and empty segments dropped, ".." resolved.
RECURSIVE NormalizeSegs(_, _, _)
NormalizeSegs(segs, acc, isAbs) ==
  IF segs = <<>> THEN acc
  ELSE LET h == Head(segs)
           t == Tail(segs)
       IN IF h = <<>> \/ h = S_dot THEN NormalizeSegs(t, acc, isAbs)
          ELSE IF h = S_dotdot
          THEN IF acc # <<>> /\ acc[Len(acc)] # S_dotdot
               THEN NormalizeSegs(t, SubSeq(acc, 1, Len(acc) - 1), isAbs)
               ELSE IF isAbs THEN NormalizeSegs(t, acc, isAbs)
               ELSE NormalizeSegs(t, Append(acc, h), isAbs)
          ELSE NormalizeSegs(t, Append(acc, h), isAbs)

\* path.posix.normalize(p)
PathNormalize(p) ==
  IF p = <<>> THEN S_dot
  ELSE LET isAbs == p[1] = "/"
           trailing == p[Len(p)] = "/"
           body == Join(NormalizeSegs(SplitSlash(p), <<>>, isAbs), S_slash)
           body1 == IF body = <<>> /\ ~isAbs THEN S_dot ELSE body
           body2 == IF body1 # <<>> /\ trailing THEN body1 \o S_slash ELSE body1
       IN IF isAbs THEN S_slash \o body2 ELSE body2

\* path.join(a, b) and path.posix.join(a, b): empty arguments are skipped.
PathJoin(a, b) ==
  PathNormalize(IF a = <<>> THEN b ELSE IF b = <<>> THEN a ELSE a \o S_slash \o b)

PathJoin3(a, b, c) ==
  PathNormalize(Join(FilterNonEmpty(<<a, b, c>>), S_slash))

\* The directory the process runs in.
Cwd == <<"/","w">>

\* path.resolve(p): absolute, normalized, no trailing slash.
PathResolve1(p) ==
  LET full == IF p # <<>> /\ p[1] = "/" THEN p ELSE Cwd \o S_slash \o p
  IN S_slash \o Join(NormalizeSegs(SplitSlash(full), <<>>, TRUE), S_slash)

\* path.resolve(base, p)
PathResolve(base, p) ==
  PathResolve1(IF p # <<>> /\ p[1] = "/" THEN p
               ELSE IF p = <<>> THEN base
               ELSE base \o S_slash \o p)

\* path.dirname(p) (posix)
Dirname(p) ==
  IF p = <<>> THEN S_dot
  ELSE LET nonSlash == {i \in 2..Len(p) : p[i] # "/"}
       IN IF nonSlash = {} THEN (IF p[1] = "/" THEN S_slash ELSE S_dot)
          ELSE LET lastCh == MaxOf(nonSlash)
                   sl == {i \in 1..(lastCh - 1) : p[i] = "/"}
               IN IF sl = {} THEN S_dot
                  ELSE LET cut == MaxOf(sl)
                           keep == {i \in 1..cut : p[i] # "/"}
                       IN IF keep = {} THEN S_slash
                          ELSE SubSeq(p, 1, MaxOf(keep))

\* ------------------------------------------------------------------------
\* JavaScript values of the manifest
\* ------------------------------------------------------------------------

\* A JSON value as the code tests it: its type tag and, for a string, its
\* characters.  "num" is a non-zero number, "obj" an object whose fields the
\* code does not read, "arr" likewise an array.
JsTags == {"undef", "null", "str", "num", "obj", "arr"}

Undef == [t |-> "undef", s |-> <<>>]
Null == [t |-> "null", s |-> <<>>]
Num == [t |-> "num", s |-> <<>>]
OpaqueObj == [t |-> "obj", s |-> <<>>]
Str(s) == [t |-> "str", s |-> s]

\* Truthiness: undefined, null and '' are falsy.
Truthy(v) == v.t \in {"num", "obj", "arr"} \/ (v.t = "str" /\ v.s # <<>>)

\* a || b
OrElse(a, b) == IF Truthy(a) THEN a ELSE b

\* The fields of a plugin's source object that the resolver reads.
SourceFields == {"source", "type", "repo", "repository", "url", "href", "ref", "path"}

NoFields == [f \in SourceFields |-> Undef]

\* A source: a scalar JSON value, or an object with the fields above.
ScalarSource(v) == [t |-> v.t, s |-> v.s, o |-> NoFields]
ObjectSource(o) == [t |-> "obj", s |-> <<>>, o |-> o]

UpperLetters == <<"A","B","C","D","E","F","G","H","I","J","K","L","M","N","O","P","Q","R","S","T","U","V","W","X","Y","Z">>
LowerLetters == <<"a","b","c","d","e","f","g","h","i","j","k","l","m","n","o","p","q","r","s","t","u","v","w","x","y","z">>

LowerChar(c) ==
  IF \E i \in 1..26 : UpperLetters[i] = c
  THEN LowerLetters[CHOOSE i \in 1..26 : UpperLetters[i] = c]
  ELSE c

\* s.toLowerCase()
ToLowerCase(s) == [i \in 1..Len(s) |-> LowerChar(s[i])]

\* ------------------------------------------------------------------------
\* marketplace.js: URL parsing
\* ------------------------------------------------------------------------

S_github == <<"g","i","t","h","u","b">>
S_git == <<"g","i","t">>
S_url == <<"u","r","l">>
S_main == <<"m","a","i","n">>
S_master == <<"m","a","s","t","e","r">>
S_schemeSep == <<":","/","/">>
S_dotGit == <<".","g","i","t">>
S_githubCom == <<"g","i","t","h","u","b",".","c","o","m">>
S_gitlabCom == <<"g","i","t","l","a","b",".","c","o","m">>

\* new URL(u) for an absolute URL without port, query or fragment: ok is
\* FALSE where the constructor throws.
ParseUrl(u) ==
  LET i == IndexOf(u, S_schemeSep)
  IN IF i <= 1 THEN [ok |-> FALSE, hostname |-> <<>>, pathname |-> <<>>]
     ELSE LET rest == SliceFrom(u, i + 2)
              j == IndexOf(rest, S_slash)
              host == IF j = 0 THEN rest ELSE SubSeq(rest, 1, j - 1)
              pathname == IF j = 0 THEN S_slash ELSE SliceFrom(rest, j - 1)
          IN IF host = <<>> THEN [ok |-> FALSE, hostname |-> <<>>, pathname |-> <<>>]
             ELSE [ok |-> TRUE, hostname |-> ToLowerCase(host), pathname |-> pathname]

\* s.replace(/\.git$/i, '')
StripDotGit(s) ==
  IF Len(s) >= 4 /\ ToLowerCase(SubSeq(s, Len(s) - 3, Len(s))) = S_dotGit
  THEN SubSeq(s, 1, Len(s) - 4) ELSE s

NoRepo == [provider |-> "none", owner |-> <<>>, repo |-> <<>>, namespacePath |-> <<>>]

\* parseGitRepoUrl(u): provider "none" is the source's null.  A value that
\* is not a string makes new URL throw, which the function catches.
parseGitRepoUrl(u) ==
  IF u.t # "str" THEN NoRepo
  ELSE LET url == ParseUrl(u.s)
       IN IF ~url.ok THEN NoRepo
          ELSE LET pathname == StripTrailingSlash(StripDotGit(url.pathname))
                   parts == FilterNonEmpty(SplitSlash(pathname))
               IN IF parts = <<>> THEN NoRepo
                  ELSE IF url.hostname = S_githubCom
                  THEN IF Len(parts) < 2 THEN NoRepo
                       ELSE [provider |-> "github", owner |-> parts[1], repo |-> parts[2],
                             namespacePath |-> <<>>]
                  ELSE IF url.hostname = S_gitlabCom
                  THEN IF Len(parts) < 2 THEN NoRepo
                       ELSE [provider |-> "gitlab", owner |-> <<>>, repo |-> parts[Len(parts)],
                             namespacePath |-> Join(parts, S_slash)]
                  ELSE NoRepo

\* ------------------------------------------------------------------------
\* marketplace.js: resolvePluginSource
\* ------------------------------------------------------------------------

\* A marketplace context, as loadMarketplace builds it.  The fields a kind
\* does not have are empty.
Context(kind, baseDir, owner, repo, ref, basePath, namespacePath) ==
  [kind |-> kind, baseDir |-> baseDir, owner |-> owner, repo |-> repo,
   ref |-> ref, basePath |-> basePath, namespacePath |-> namespacePath]

\* A resolved source.  kind "threw" stands for an exception leaving the
\* function; reason is then the exception.
Resolved(kind, localDir, owner, repo, ref, path, namespacePath, reason, overrides) ==
  [kind |-> kind, localDir |-> localDir, owner |-> owner, repo |-> repo, ref |-> ref,
   path |-> path, namespacePath |-> namespacePath, reason |-> reason,
   overrides |-> overrides]

Unsupported(reason, overrides) ==
  Resolved("unsupported", <<>>, <<>>, <<>>, <<>>, <<>>, <<>>, reason, overrides)

Threw(reason, overrides) ==
  Resolved("threw", <<>>, <<>>, <<>>, <<>>, <<>>, <<>>, reason, overrides)

\* The ref taken without a look at the context: src.ref || 'main'.
RefOfNoContext(src, context, provider) ==
  IF Truthy(src.o.ref) THEN src.o.ref.s ELSE S_main

\* src.ref || context.gh?.ref || 'main' (and the gl twin): the context's ref
\* counts only when the context is of the provider named.
RefOf(src, context, provider) ==
  IF Truthy(src.o.ref) THEN src.o.ref.s
  ELSE IF context.kind = provider /\ context.ref # <<>> THEN context.ref
  ELSE S_main

\* v || '' used as a path: a truthy non-string makes path.join throw.
PathArgThrows(v) == Truthy(v) /\ v.t # "str"
PathArg(v) == IF v.t = "str" THEN v.s ELSE <<>>

\* A resolution that takes every context for a GitHub one.
resolvePluginSourceAnyContext(plugin, context) ==
  Resolved("github", <<>>, context.owner, context.repo, context.ref,
           PathArg(plugin.source), <<>>, "", plugin.overrides)

\* plugin: [source, pluginRoot, overrides]
resolvePluginSource(plugin, context) ==
  LET overrides == plugin.overrides
      src == plugin.source
      pluginRoot == plugin.pluginRoot
  IN IF src.t = "str"
     THEN IF context.kind = "local"
          THEN IF PathArgThrows(pluginRoot)
               THEN Threw("TypeError: path argument must be a string", overrides)
               ELSE LET base == PathResolve1(PathJoin(context.baseDir, PathArg(pluginRoot)))
                    IN Resolved("local", PathResolve(base, src.s), <<>>, <<>>, <<>>, <<>>, <<>>,
                                "", overrides)
          ELSE IF context.kind = "github"
          THEN IF PathArgThrows(pluginRoot)
               THEN Threw("TypeError: path argument must be a string", overrides)
               ELSE LET basePath == PathJoin(context.basePath, PathArg(pluginRoot))
                    IN Resolved("github", <<>>, context.owner, context.repo, context.ref,
                                PathJoin(basePath, src.s), <<>>, "", overrides)
          ELSE IF context.kind = "gitlab"
          THEN IF PathArgThrows(pluginRoot)
               THEN Threw("TypeError: path argument must be a string", overrides)
               ELSE LET basePath == PathJoin(context.basePath, PathArg(pluginRoot))
                    IN Resolved("gitlab", <<>>, <<>>, context.repo, context.ref,
                                PathJoin(basePath, src.s), context.namespacePath, "", overrides)
          ELSE Unsupported("Non-GitHub remote source path", overrides)
     ELSE IF src.t = "obj"
     THEN LET disc == OrElse(src.o.source, src.o.type)
          IN IF Truthy(disc) /\ disc.t # "str"
             THEN Threw("TypeError: toLowerCase is not a function", overrides)
             ELSE LET type == ToLowerCase(PathArg(disc))
                  IN IF type = S_github
                     THEN LET repo == OrElse(src.o.repo, src.o.repository)
                          IN IF ~Truthy(repo) THEN Unsupported("Missing GitHub repo", overrides)
                             ELSE IF repo.t # "str"
                             THEN Threw("TypeError: repo.split is not a function", overrides)
                             ELSE LET parts == SplitSlash(repo.s)
                                  IN Resolved("github", <<>>, parts[1],
                                              IF Len(parts) >= 2 THEN parts[2] ELSE <<>>,
                                              RefOf(src, context, "github"),
                                              PathArg(src.o.path), <<>>, "", overrides)
                     ELSE IF type = S_git \/ type = S_url
                     THEN LET repo == parseGitRepoUrl(OrElse(src.o.url, src.o.href))
                          IN IF repo.provider = "github"
                             THEN Resolved("github", <<>>, repo.owner, repo.repo,
                                           RefOf(src, context, "github"),
                                           PathArg(src.o.path), <<>>, "", overrides)
                             ELSE IF repo.provider = "gitlab"
                             THEN Resolved("gitlab", <<>>, <<>>, repo.repo,
                                           RefOf(src, context, "gitlab"),
                                           PathArg(src.o.path), repo.namespacePath, "", overrides)
                             ELSE Unsupported("Unsupported git/url provider", overrides)
                     ELSE Unsupported("Unknown source type", overrides)
     ELSE Unsupported("Unknown source type", overrides)

\* ------------------------------------------------------------------------
\* marketplace.js: classification of the marketplace input
\* ------------------------------------------------------------------------

Digits == {"0","1","2","3","4","5","6","7","8","9"}

\* [A-Za-z0-9_.-]
ShorthandChars ==
  {UpperLetters[i] : i \in 1..26} \cup {LowerLetters[i] : i \in 1..26} \cup Digits
  \cup {"_", ".", "-"}

\* isUrl: /^https?:\/\//i
isUrl(input) ==
  \/ StartsWith(ToLowerCase(input), <<"h","t","t","p",":","/","/">>)
  \/ StartsWith(ToLowerCase(input), <<"h","t","t","p","s",":","/","/">>)

\* isOwnerRepoShorthand: /^[A-Za-z0-9_.-]+\/[A-Za-z0-9_.-]+$/
isOwnerRepoShorthand(input) ==
  LET parts == SplitSlash(input)
  IN /\ Len(parts) = 2
     /\ parts[1] # <<>>
     /\ parts[2] # <<>>
     /\ \A i \in 1..Len(input) : input[i] = "/" \/ input[i] \in ShorthandChars

S_rawHostName == <<"r","a","w",".","g","i","t","h","u","b","u","s","e","r","c","o","n","t","e","n","t",".","c","o","m">>

NoRaw == [ok |-> FALSE, owner |-> <<>>, repo |-> <<>>, ref |-> <<>>, filePath |-> <<>>]

\* parseGitHubRawUrl(u): ok FALSE is the source's null.
parseGitHubRawUrl(u) ==
  LET url == ParseUrl(u)
  IN IF ~url.ok THEN NoRaw
     ELSE IF url.hostname # S_rawHostName THEN NoRaw
     ELSE LET parts == FilterNonEmpty(SplitSlash(url.pathname))
          IN IF Len(parts) < 3 THEN NoRaw
             ELSE [ok |-> TRUE, owner |-> parts[1], repo |-> parts[2], ref |-> parts[3],
                   filePath |-> Join(SubSeq(parts, 4, Len(parts)), S_slash)]

\* The refs loadMarketplace tries for a GitHub shorthand or repository URL:
\* ref ? [ref] : ['main', 'master'].
\* The refs in the other order: master before main.
GithubRefsToTryMasterFirst(ref) == IF ref # <<>> THEN <<ref>> ELSE <<S_master, S_main>>

GithubRefsToTry(ref) == IF ref # <<>> THEN <<ref>> ELSE <<S_main, S_master>>

\* The refs it tries for a GitLab repository URL:
\* [ref, 'main', 'master'].filter(Boolean).
GitlabRefsToTry(ref) == FilterNonEmpty(<<ref, S_main, S_master>>)

\* input.replace(/\/marketplace\.json$/, '')
StripManifestName(input) ==
  IF EndsWith(input, S_slash \o S_marketplaceJson)
  THEN SubSeq(input, 1, Len(input) - Len(S_marketplaceJson) - 1)
  ELSE input

\* ------------------------------------------------------------------------
\* State
\* ------------------------------------------------------------------------

VARIABLES
  fl_kind,    \* flattenName: the resource type directory
  fl_srcA,    \* flattenName: first source locator
  fl_srcB,    \* flattenName: second source locator
  fl_nameA,   \* flattenName(fl_srcA, fl_kind), once computed
  fl_nameB,   \* flattenName(fl_srcB, fl_kind), once computed
  fl_pc,      \* "input" before the calls, "done" after
  rs_plugin,  \* resolvePluginSource: the plugin record
  rs_context, \* resolvePluginSource: the marketplace context
  rs_result,  \* resolvePluginSource: what the call gave
  rs_pc,      \* "input" before the call, "done" after
  w_fs,            \* the local filesystem: the absolute paths of its files
  w_caseSensitive, \* whether the local filesystem tells SKILL.md from skill.md
  w_localOk,       \* whether the local manifest files hold valid JSON
  w_repo,          \* the remote repository: the paths of its blobs
  w_tree,          \* the blobs the recursive tree response holds: all of w_repo unless truncated
  w_refs,          \* per remote ref: "absent", or its manifest: "ok", "malformed", "nomanifest"
  w_manifest,      \* the manifest JSON every valid copy holds
  faults,          \* how many more requests the network may fail (HTTP 500)
  input,           \* loadMarketplace: the marketplace argument
  refArg,          \* loadMarketplace: the ref argument, <<>> when not given
  pc,              \* where the run is
  refsToTry,       \* loadMarketplace: the refs not tried yet
  lastErr,         \* loadMarketplace: the error of the last failed attempt
  requests,        \* every HTTP request made so far, with its answer
  loaded,          \* what loadMarketplace gave: {json, context} or the error thrown
  normalized,      \* discoverPlugins: the plugins normalizePlugins returned
  idx,             \* discoverPlugins: the position of the plugin in hand
  resolved,        \* discoverPlugins: the resolved source of the plugin in hand
  tree,            \* scanPluginGithub: "ok" when the tree was got, "failed" when not
  sec,             \* scanners: the position of the section in hand
  scan,            \* scanners: the scan result being built
  probes,          \* resolveSkills: the directories still to probe for SKILL.md
  githubTreeCache, \* the keys owner/repo@ref whose tree is cached
  results,         \* discoverPlugins: the results pushed so far
  plan,            \* what computeMarketplacePlan gave
  ht_pc,           \* httpGetText: "idle", "sent", "body", "resolved", "rejected", "threw"
  ht_url,          \* httpGetText: the URL in hand: 0 the argument, n the n-th Location
  ht_maxRedirects, \* httpGetText: the maxRedirects argument of the call in hand
  ht_sent,         \* httpGetText: how many requests were issued
  ht_res,          \* httpGetText: the response in hand
  ht_out,          \* httpGetText: what the promise settled with
  args,            \* run: the parsed arguments: force, yes, plugins
  isTTY,           \* run: whether stdin and stdout are terminals
  confirmedArgs,   \* run: what confirmIfNeeded returned, <<>> before
  fetchSpin,       \* run: the timer of the spinner of the fetch: "null", "running", "cleared"
  spinnerTimer,    \* run: the timer of the spinner of the installation, likewise
  sigintHandler,   \* run: whether the SIGINT listener is registered
  terminal,        \* what the line of the terminal shows: "clean" or "spinner"
  destFs,          \* the files below the destination directories: path -> content
  destFs0,         \* destFs as it was when the run began
  item,            \* run: the position, in commands then droids, of the item in hand
  copyResults,     \* run: per item handled, its dest, result and existed
  exit,            \* how the process ended, <<>> while it runs
  wz_step,         \* guided run: 'scope', 'source' or 'flow'; then "handed", "installed"; "exited"
  wz_scopeChoice,  \* guided run: scopeChoice, "null" before the scope prompt is answered
  wz_srcChoice,    \* guided run: srcChoice, "null" before the source prompt is answered
  wz_flow,         \* guided run: the locals of the sub-flow in hand
  wz_avail,        \* guided run: availableCommands and availableDroids
  wz_key,          \* guided run: the key that ended the last prompt, and the prompt
  wz_answered,     \* guided run: the prompts answered since the wizard last started over
  wz_resets,       \* guided run: how often the wizard started over, up to MaxResets
  wz_args,         \* guided run: the arguments the wizard assigned to args, <<>> before
  wz_written       \* guided run: whether the installer has written files

flVars == <<fl_kind, fl_srcA, fl_srcB, fl_nameA, fl_nameB, fl_pc>>
rsVars == <<rs_plugin, rs_context, rs_result, rs_pc>>
worldVars == <<w_fs, w_caseSensitive, w_localOk, w_repo, w_tree, w_refs, w_manifest>>
loadVars == <<input, refArg, refsToTry, lastErr, loaded>>
discVars == <<normalized, idx, resolved, tree, sec, scan, probes, githubTreeCache, results, plan>>

htVars == <<ht_pc, ht_url, ht_maxRedirects, ht_sent, ht_res, ht_out>>

runVars == <<args, isTTY, confirmedArgs, fetchSpin, spinnerTimer, sigintHandler, terminal,
             destFs, destFs0, item, copyResults, exit>>

wzVars == <<wz_step, wz_scopeChoice, wz_srcChoice, wz_flow, wz_avail, wz_key, wz_answered,
            wz_resets, wz_args, wz_written>>

vars == <<flVars, rsVars, wzVars, htVars, runVars, worldVars, faults, pc, requests, loadVars, discVars>>

\* The parts of the state a specification does not use stay as they are here.
FlattenIdle ==
  /\ fl_kind = <<>>
  /\ fl_srcA = <<>>
  /\ fl_srcB = <<>>
  /\ fl_nameA = <<>>
  /\ fl_nameB = <<>>
  /\ fl_pc = "idle"

ResolveIdle ==
  /\ rs_plugin = <<>>
  /\ rs_context = <<>>
  /\ rs_result = <<>>
  /\ rs_pc = "idle"

PipelineIdle ==
  /\ w_fs = {}
  /\ w_caseSensitive = TRUE
  /\ w_localOk = TRUE
  /\ w_repo = {}
  /\ w_tree = {}
  /\ w_refs = <<>>
  /\ w_manifest = <<>>
  /\ faults = 0
  /\ input = <<>>
  /\ refArg = <<>>
  /\ pc = "idle"
  /\ refsToTry = <<>>
  /\ lastErr = <<>>
  /\ requests = <<>>
  /\ loaded = <<>>
  /\ normalized = <<>>
  /\ idx = 0
  /\ resolved = <<>>
  /\ tree = "none"
  /\ sec = 0
  /\ scan = <<>>
  /\ probes = <<>>
  /\ githubTreeCache = {}
  /\ results = <<>>
  /\ plan = <<>>

HttpIdle ==
  /\ ht_pc = "idle"
  /\ ht_url = 0
  /\ ht_maxRedirects = 0
  /\ ht_sent = 0
  /\ ht_res = <<>>
  /\ ht_out = <<>>

RunIdle ==
  /\ args = <<>>
  /\ isTTY = FALSE
  /\ confirmedArgs = <<>>
  /\ fetchSpin = "null"
  /\ spinnerTimer = "null"
  /\ sigintHandler = FALSE
  /\ terminal = "clean"
  /\ destFs = <<>>
  /\ destFs0 = <<>>
  /\ item = 0
  /\ copyResults = <<>>
  /\ exit = <<>>

WizardIdle ==
  /\ wz_step = "idle"
  /\ wz_scopeChoice = "null"
  /\ wz_srcChoice = "null"
  /\ wz_flow = <<>>
  /\ wz_avail = <<>>
  /\ wz_key = <<>>
  /\ wz_answered = {}
  /\ wz_resets = 0
  /\ wz_args = <<>>
  /\ wz_written = FALSE

pipelineVars == <<worldVars, faults, pc, requests, loadVars, discVars>>

\* ------------------------------------------------------------------------
\* Specification of flattenName on pairs of locators of one plugin
\* ------------------------------------------------------------------------

Kinds == {S_commands, S_agents, S_hooks, S_skills}

\* Characters of the names below the type directory.
RelAlphabet == {"a", "_", "/"}

\* Relative paths below the type directory: non-empty segments only.
RelPaths ==
  {r \in UNION {[1..n -> RelAlphabet] : n \in 1..MaxRelLen} :
     /\ r[1] # "/"
     /\ r[Len(r)] # "/"
     /\ \A i \in 1..(Len(r) - 1) : ~(r[i] = "/" /\ r[i + 1] = "/")}

\* The directory of the plugin, as the local scanner (an absolute path) or
\* the GitHub scanner (a raw URL) gives it.
LocalPluginDir == <<"/","m","/","p">>
RemotePluginDir == S_rawHost \o <<"/","o","/","r","/","m","a","i","n","/","p">>

\* The extension of a resource of that type: skills are directories.
ExtOf(kind) == IF kind = S_skills THEN <<>> ELSE S_md

LocatorOf(dir, kind, rel) == dir \o S_slash \o kind \o S_slash \o rel \o ExtOf(kind)

\* The part of a relative path before its last segment.
DirPart(rel) ==
  LET sl == {i \in 1..Len(rel) : rel[i] = "/"}
  IN IF sl = {} THEN <<>> ELSE SubSeq(rel, 1, MaxOf(sl) - 1)

FlattenInit ==
  /\ fl_kind \in Kinds
  /\ \E dir \in {LocalPluginDir, RemotePluginDir} :
       /\ fl_srcA \in {LocatorOf(dir, fl_kind, r) : r \in RelPaths}
       /\ fl_srcB \in {LocatorOf(dir, fl_kind, r) : r \in RelPaths}
  /\ fl_nameA = <<>>
  /\ fl_nameB = <<>>
  /\ fl_pc = "input"
  /\ ResolveIdle
  /\ PipelineIdle
  /\ HttpIdle
  /\ WizardIdle
  /\ RunIdle

\* computeMarketplacePlan names both resources of the plugin.
FlattenBoth ==
  /\ fl_pc = "input"
  /\ fl_nameA' = flattenName(fl_srcA, fl_kind)
  /\ fl_nameB' = flattenName(fl_srcB, fl_kind)
  /\ fl_pc' = "done"
  /\ UNCHANGED <<fl_kind, fl_srcA, fl_srcB>>
  /\ UNCHANGED <<rsVars, wzVars, htVars, runVars, pipelineVars>>

FlattenNext == FlattenBoth

SpecFlatten == FlattenInit /\ [][FlattenNext]_vars

\* ------------------------------------------------------------------------
\* Specification of resolvePluginSource on plugin records and contexts
\* ------------------------------------------------------------------------

\* An override of one resource type: absent, a directory (string) or a list
\* of paths (array of JSON values).
NoOverride == [t |-> "undef", s |-> <<>>, a |-> <<>>]
DirOverride(s) == [t |-> "str", s |-> s, a |-> <<>>]
ListOverride(a) == [t |-> "arr", s |-> <<>>, a |-> a]

NoOverrides ==
  [commands |-> NoOverride, agents |-> NoOverride, hooks |-> NoOverride,
   mcpServers |-> NoOverride]

S_o == <<"o">>
S_r == <<"r">>
S_dev == <<"d","e","v">>
S_sub == <<"s","u","b">>
S_ownerRepo == <<"o","/","r">>
S_https == <<"h","t","t","p","s",":","/","/">>

ResolveDiscriminators ==
  {Undef, Num, Str(S_github), Str(<<"G","i","t","H","u","b">>), Str(S_git), Str(S_url),
   Str(<<"s","v","n">>)}

ResolveRepos == {Undef, Num, Str(S_ownerRepo), Str(S_r)}

ResolveUrls ==
  {Undef, Num,
   Str(S_https \o S_githubCom \o <<"/","o","/","r">>),
   Str(S_https \o S_gitlabCom \o <<"/","g","/","s","/","r",".","g","i","t">>),
   Str(S_https \o <<"x",".","o","r","g","/","o","/","r">>),
   Str(<<"o","/","r">>)}

ResolveObjects ==
  {[NoFields EXCEPT !.source = d, !.repo = rp, !.url = u, !.ref = rf, !.path = pa] :
     d \in ResolveDiscriminators, rp \in ResolveRepos, u \in ResolveUrls,
     rf \in {Undef, Str(S_dev)}, pa \in {Undef, Str(S_sub)}}
  \cup
  {[NoFields EXCEPT !.type = d, !.repository = rp, !.href = u] :
     d \in ResolveDiscriminators, rp \in ResolveRepos, u \in ResolveUrls}

ResolveSources ==
  {ScalarSource(v) : v \in {Undef, Null, Num, [t |-> "arr", s |-> <<>>],
                            Str(<<".","/","p">>), Str(<<"p">>), Str(<<".",".","/","p">>)}}
  \cup {ObjectSource(o) : o \in ResolveObjects}

ResolvePluginRoots == {Undef, Str(<<>>), Str(<<"r","t">>), Num}

ResolveContexts ==
  {Context("local", <<"/","m","/">> \o S_claudePlugin, <<>>, <<>>, <<>>, <<>>, <<>>),
   Context("github", <<>>, S_o, S_r, S_master, <<>>, <<>>),
   Context("github", <<>>, S_o, S_r, S_main, <<"b">>, <<>>),
   Context("gitlab", <<>>, <<>>, S_r, S_master, <<>>, <<"g","/","r">>),
   Context("url", <<>>, <<>>, <<>>, <<>>, <<>>, <<>>)}

ResolveInit ==
  /\ rs_plugin \in [source : ResolveSources, pluginRoot : ResolvePluginRoots,
                    overrides : {NoOverrides}]
  /\ rs_context \in ResolveContexts
  /\ rs_result = <<>>
  /\ rs_pc = "input"
  /\ FlattenIdle
  /\ PipelineIdle
  /\ HttpIdle
  /\ WizardIdle
  /\ RunIdle

ResolveCall ==
  /\ rs_pc = "input"
  /\ rs_result' = resolvePluginSource(rs_plugin, rs_context)
  /\ rs_pc' = "done"
  /\ UNCHANGED <<rs_plugin, rs_context>>
  /\ UNCHANGED <<flVars, wzVars, htVars, runVars, pipelineVars>>

ResolveNext == ResolveCall

SpecResolve == ResolveInit /\ [][ResolveNext]_vars

\* ------------------------------------------------------------------------
\* The local filesystem and the network, as the code observes them
\* ------------------------------------------------------------------------

\* Two paths name the same file: exactly, or up to case on a filesystem
\* that does not tell cases apart.
FsSame(a, b) == IF w_caseSensitive THEN a = b ELSE ToLowerCase(a) = ToLowerCase(b)

\* What fs.existsSync and fs.statSync tell of a path: "file", "dir" (some
\* file lies below it) or "none".
FsStat(p) ==
  LET q == PathResolve1(p)
      d == q \o S_slash
  IN IF \E f \in w_fs : FsSame(f, q) THEN "file"
     ELSE IF \E f \in w_fs : Len(f) > Len(d) /\ FsSame(SubSeq(f, 1, Len(d)), d) THEN "dir"
     ELSE "none"

\* fs.existsSync(p) && fs.statSync(p).isFile()
FsIsFile(p) == FsStat(p) = "file"

\* fs.existsSync(p) && fs.statSync(p).isDirectory()
FsIsDir(p) == FsStat(p) = "dir"

\* fs.existsSync(p)
FsExists(p) == FsStat(p) # "none"

\* fs.readdirSync(p): the names of the entries directly in p.
FsReaddir(p) ==
  LET d == PathResolve1(p) \o S_slash
  IN {SplitSlash(SliceFrom(f, Len(d)))[1] :
        f \in {g \in w_fs : Len(g) > Len(d) /\ FsSame(SubSeq(g, 1, Len(d)), d)}}

\* An error object: its type, the HTTP status it carries (0 for none) and
\* the ref of the attempt that raised it.
Err(type, status, ref) == [type |-> type, status |-> status, ref |-> ref]
NoErr == Err("none", 0, <<>>)

\* One logged request: what was asked, of whom, and the answer.
Req(op, provider, ref, path, answer, plugin) ==
  [op |-> op, provider |-> provider, ref |-> ref, path |-> path, answer |-> answer,
   plugin |-> plugin]

\* The refs of the remote repository the model tells apart.
RemoteRefs == {S_main, S_master, S_dev}

RefExists(ref) == ref \in DOMAIN w_refs /\ w_refs[ref] # "absent"

\* What a GET of the manifest at a ref can answer: the copy there ("ok" or
\* "malformed"), "404" when the ref has none, or a server failure.
ManifestAnswers(ref) ==
  (IF RefExists(ref) /\ w_refs[ref] # "nomanifest" THEN {w_refs[ref]} ELSE {"404"})
  \cup (IF faults > 0 THEN {"500"} ELSE {})

\* The faults left after an answer.
FaultsAfter(answer) == IF answer = "500" THEN faults - 1 ELSE faults

\* The error httpGetText + JSON.parse raise for an answer that is not "ok".
ManifestError(answer, ref) ==
  IF answer = "malformed" THEN Err("SyntaxError", 0, ref)
  ELSE IF answer = "404" THEN Err("HTTP", 404, ref)
  ELSE Err("HTTP", 500, ref)

NoContext == Context("none", <<>>, <<>>, <<>>, <<>>, <<>>, <<>>)

LoadedOk(json, context) == [status |-> "ok", json |-> json, context |-> context, error |-> NoErr]
LoadedError(e) == [status |-> "error", json |-> <<>>, context |-> NoContext, error |-> e]
NotLoaded == [status |-> "none", json |-> <<>>, context |-> NoContext, error |-> NoErr]

\* ------------------------------------------------------------------------
\* marketplace.js: loadMarketplace
\* ------------------------------------------------------------------------

\* if (!input) throw new Error('No marketplace input provided')
LoadNoInput ==
  /\ pc = "load"
  /\ input = <<>>
  /\ loaded' = LoadedError(Err("NoInput", 0, <<>>))
  /\ pc' = "loadFailed"
  /\ UNCHANGED <<flVars, rsVars, wzVars, htVars, runVars, worldVars, discVars, faults, requests, input, refArg, refsToTry, lastErr>>

\* The local branch as a function of the input: the file read and the result.
LocalManifestFile(in) ==
  IF FsIsDir(in)
  THEN PathJoin3(in, S_claudePlugin, S_marketplaceJson)
  ELSE in

\* The local branch with the input itself taken as baseDir.
loadMarketplaceLocalBaseIsInput(in) ==
  LET file == LocalManifestFile(in)
  IN IF FsIsDir(in) /\ ~FsExists(file)
     THEN LoadedError(Err("NotFound", 0, <<>>))
     ELSE IF ~FsIsFile(file) THEN LoadedError(Err("ReadError", 0, <<>>))
     ELSE IF ~w_localOk THEN LoadedError(Err("SyntaxError", 0, <<>>))
     ELSE LoadedOk(w_manifest,
                   Context("local", PathResolve1(in), <<>>, <<>>, <<>>, <<>>, <<>>))

loadMarketplaceLocal(in) ==
  LET file == LocalManifestFile(in)
  IN IF FsIsDir(in) /\ ~FsExists(file)
     THEN LoadedError(Err("NotFound", 0, <<>>))
     ELSE IF ~FsIsFile(file) THEN LoadedError(Err("ReadError", 0, <<>>))
     ELSE IF ~w_localOk THEN LoadedError(Err("SyntaxError", 0, <<>>))
     ELSE LoadedOk(w_manifest,
                   Context("local", Dirname(file), <<>>, <<>>, <<>>, <<>>, <<>>))

\* Local directory or file: read synchronously, no request.
LoadLocal ==
  /\ pc = "load"
  /\ input # <<>>
  /\ ~isUrl(input) /\ ~isOwnerRepoShorthand(input)
  /\ loaded' = loadMarketplaceLocal(input)
  /\ pc' = IF loaded'.status = "ok" THEN "loaded" ELSE "loadFailed"
  /\ UNCHANGED <<flVars, rsVars, wzVars, htVars, runVars, worldVars, discVars, faults, requests, input, refArg, refsToTry, lastErr>>

\* One turn of a refs loop: fetch the manifest at the next ref; return on
\* success, remember the error otherwise, and throw the last error once the
\* refs are used up.
FetchAtNextRef(provider, refs, contextOf(_)) ==
  LET r == Head(refs)
  IN \E answer \in ManifestAnswers(r) :
       /\ requests' = Append(requests, Req("manifest", provider, r, <<>>, answer, 0))
       /\ faults' = FaultsAfter(answer)
       /\ IF answer = "ok"
          THEN /\ loaded' = LoadedOk(w_manifest, contextOf(r))
               /\ pc' = "loaded"
               /\ UNCHANGED <<refsToTry, lastErr>>
          ELSE /\ lastErr' = ManifestError(answer, r)
               /\ refsToTry' = Tail(refs)
               /\ IF Tail(refs) = <<>>
                  THEN /\ loaded' = LoadedError(ManifestError(answer, r))
                       /\ pc' = "loadFailed"
                  ELSE /\ pc' = "loadRetry"
                       /\ UNCHANGED loaded
       /\ UNCHANGED <<flVars, rsVars, wzVars, htVars, runVars, worldVars, discVars, input, refArg>>

\* The refs still to try: the whole list when the loop starts.
RefsLeft(all) == IF pc = "load" THEN all ELSE refsToTry

ShorthandContext(r) ==
  LET parts == SplitSlash(input)
  IN Context("github", <<>>, parts[1], parts[2], r, <<>>, <<>>)

\* GitHub shorthand owner/repo
FetchShorthand ==
  /\ pc \in {"load", "loadRetry"}
  /\ isOwnerRepoShorthand(input)
  /\ FetchAtNextRef("github", RefsLeft(GithubRefsToTry(refArg)), ShorthandContext)

\* A raw.githubusercontent.com URL: fetched as given, once.
FetchRawUrl ==
  /\ pc = "load"
  /\ isUrl(input) /\ ~isOwnerRepoShorthand(input)
  /\ parseGitHubRawUrl(input).ok
  /\ LET raw == parseGitHubRawUrl(input)
         basePath == IF raw.filePath # <<>> THEN Dirname(raw.filePath) ELSE <<>>
     IN \E answer \in ManifestAnswers(raw.ref) :
          /\ requests' = Append(requests, Req("manifest", "github", raw.ref, <<>>, answer, 0))
          /\ faults' = FaultsAfter(answer)
          /\ loaded' = IF answer = "ok"
                       THEN LoadedOk(w_manifest,
                                     Context("github", <<>>, raw.owner, raw.repo, raw.ref,
                                             basePath, <<>>))
                       ELSE LoadedError(ManifestError(answer, raw.ref))
          /\ pc' = IF answer = "ok" THEN "loaded" ELSE "loadFailed"
  /\ UNCHANGED <<flVars, rsVars, wzVars, htVars, runVars, worldVars, discVars, input, refArg, refsToTry, lastErr>>

GithubUrlContext(r) ==
  LET repo == parseGitRepoUrl(Str(input))
  IN Context("github", <<>>, repo.owner, repo.repo, r, <<>>, <<>>)

\* A github.com repository URL
FetchGithubRepoUrl ==
  /\ pc \in {"load", "loadRetry"}
  /\ isUrl(input) /\ ~isOwnerRepoShorthand(input)
  /\ ~parseGitHubRawUrl(input).ok
  /\ parseGitRepoUrl(Str(input)).provider = "github"
  /\ FetchAtNextRef("github", RefsLeft(GithubRefsToTry(refArg)), GithubUrlContext)

GitlabUrlContext(r) ==
  LET repo == parseGitRepoUrl(Str(input))
  IN Context("gitlab", <<>>, <<>>, repo.repo, r, <<>>, repo.namespacePath)

\* A gitlab.com repository URL
FetchGitlabRepoUrl ==
  /\ pc \in {"load", "loadRetry"}
  /\ isUrl(input) /\ ~isOwnerRepoShorthand(input)
  /\ ~parseGitHubRawUrl(input).ok
  /\ parseGitRepoUrl(Str(input)).provider = "gitlab"
  /\ FetchAtNextRef("gitlab", RefsLeft(GitlabRefsToTry(refArg)), GitlabUrlContext)

\* Any other URL: the manifest itself, fetched once.  The server of such a
\* URL answers with the copy the world keeps at main.
FetchGenericUrl ==
  /\ pc = "load"
  /\ isUrl(input) /\ ~isOwnerRepoShorthand(input)
  /\ ~parseGitHubRawUrl(input).ok
  /\ parseGitRepoUrl(Str(input)).provider = "none"
  /\ \E answer \in ManifestAnswers(S_main) :
       /\ requests' = Append(requests, Req("manifest", "url", <<>>, <<>>, answer, 0))
       /\ faults' = FaultsAfter(answer)
       /\ loaded' = IF answer = "ok"
                    THEN LoadedOk(w_manifest,
                                  Context("url", StripManifestName(input), <<>>, <<>>, <<>>,
                                          <<>>, <<>>))
                    ELSE LoadedError(ManifestError(answer, <<>>))
       /\ pc' = IF answer = "ok" THEN "loaded" ELSE "loadFailed"
  /\ UNCHANGED <<flVars, rsVars, wzVars, htVars, runVars, worldVars, discVars, input, refArg, refsToTry, lastErr>>

LoadNext ==
  \/ LoadNoInput
  \/ LoadLocal
  \/ FetchShorthand
  \/ FetchRawUrl
  \/ FetchGithubRepoUrl
  \/ FetchGitlabRepoUrl
  \/ FetchGenericUrl


\* ------------------------------------------------------------------------
\* marketplace.js: httpGetText
\* ------------------------------------------------------------------------

\* function httpGetText(url, headers = {}, maxRedirects = 5, opts = {}):
\* every caller leaves maxRedirects to its default.
MaxRedirects == 5

\* [301, 302, 303, 307, 308]
RedirectStatuses == {301, 302, 303, 307, 308}

\* The statuses a server answers with in the model.
HttpStatuses == {200, 204, 300, 301, 302, 303, 304, 307, 308, 404, 500}

\* res.headers.location: absent, a URL, or a string new URL() rejects.
Locations == {"none", "url", "invalid"}

Response(status, location) == [status |-> status, location |-> location]

Responses == {Response(st, loc) : st \in HttpStatuses, loc \in Locations}

\* The body the server sends at a URL.
BodyAt(url) == <<"body", url>>

\* A redirect followed whatever maxRedirects is.
FollowsRedirectUnlimited(res, maxRedirects) ==
  res.status \in RedirectStatuses /\ res.location # "none"

\* [301, ...].includes(res.statusCode) and location && maxRedirects > 0
FollowsRedirect(res, maxRedirects) ==
  res.status \in RedirectStatuses /\ res.location # "none" /\ maxRedirects > 0

\* res.statusCode >= 200 && res.statusCode < 300
IsSuccess(status) == status >= 200 /\ status < 300

HttpResolved(data) == [kind |-> "resolved", data |-> data, status |-> 0]
HttpRejected(status) == [kind |-> "rejected", data |-> <<>>, status |-> status]

HttpIdleRest == FlattenIdle /\ ResolveIdle /\ PipelineIdle /\ RunIdle /\ WizardIdle

\* httpGetText(url): the call, up to https.get having issued the request.
HttpInit ==
  /\ HttpIdleRest
  /\ ht_pc = "sent"
  /\ ht_url = 0
  /\ ht_maxRedirects = MaxRedirects
  /\ ht_sent = 1
  /\ ht_res = <<>>
  /\ ht_out = <<>>

\* The response callback: a redirect that is followed calls httpGetText
\* with the Location and maxRedirects - 1, which issues the next request;
\* new URL(location, url) on a string that is no URL throws out of the
\* callback and the promise is never settled.  Any other response is read.
HttpResponse ==
  /\ ht_pc = "sent"
  /\ \E res \in Responses :
       /\ ht_res' = res
       /\ IF FollowsRedirect(res, ht_maxRedirects)
          THEN IF res.location = "invalid"
               THEN /\ ht_pc' = "threw"
                    /\ UNCHANGED <<ht_url, ht_maxRedirects, ht_sent>>
               ELSE /\ ht_url' = ht_url + 1
                    /\ ht_maxRedirects' = ht_maxRedirects - 1
                    /\ ht_sent' = ht_sent + 1
                    /\ ht_pc' = "sent"
          ELSE /\ ht_pc' = "body"
               /\ UNCHANGED <<ht_url, ht_maxRedirects, ht_sent>>
  /\ UNCHANGED <<flVars, rsVars, wzVars, runVars, pipelineVars, ht_out>>

\* res.on('end'): resolve(data) for a 2xx status, else reject with the
\* status.
HttpEnd ==
  /\ ht_pc = "body"
  /\ IF IsSuccess(ht_res.status)
     THEN /\ ht_out' = HttpResolved(BodyAt(ht_url))
          /\ ht_pc' = "resolved"
     ELSE /\ ht_out' = HttpRejected(ht_res.status)
          /\ ht_pc' = "rejected"
  /\ UNCHANGED <<flVars, rsVars, wzVars, runVars, pipelineVars, ht_url, ht_maxRedirects, ht_sent, ht_res>>

\* req.on('error'): the request in hand failed without a response.
HttpRequestError ==
  /\ ht_pc = "sent"
  /\ ht_out' = HttpRejected(0)
  /\ ht_pc' = "rejected"
  /\ UNCHANGED <<flVars, rsVars, wzVars, runVars, pipelineVars, ht_url, ht_maxRedirects, ht_sent, ht_res>>

HttpNext ==
  \/ HttpResponse
  \/ HttpEnd
  \/ HttpRequestError

SpecHttp == HttpInit /\ [][HttpNext]_vars

\* ------------------------------------------------------------------------
\* marketplace.js: normalizePlugins
\* ------------------------------------------------------------------------

\* A manifest: the JSON root's type and, of an object, the fields read.
\* plugins is a value [t, a]: its type and, of an array, its entries.
Manifest(pluginRoot, metaPluginRoot, plugins) ==
  [t |-> "obj", pluginRoot |-> pluginRoot, metaPluginRoot |-> metaPluginRoot,
   plugins |-> plugins]

PluginsArray(a) == [t |-> "arr", a |-> a]
PluginsOther(tag) == [t |-> tag, a |-> <<>>]

\* The JSON document null.
NullManifest == [t |-> "null", pluginRoot |-> Undef, metaPluginRoot |-> Undef,
                 plugins |-> PluginsOther("undef")]

\* An entry of plugins: its type and, of an object, the fields read.
Entry(name, source, commands, agents, hooks, skills) ==
  [t |-> "obj", name |-> name, source |-> source, commands |-> commands,
   agents |-> agents, hooks |-> hooks, mcpServers |-> NoOverride, skills |-> skills]

\* An entry that is not an object: null, a number, a string.
ScalarEntry(tag) ==
  [t |-> tag, name |-> Undef, source |-> ScalarSource(Undef), commands |-> NoOverride,
   agents |-> NoOverride, hooks |-> NoOverride, mcpServers |-> NoOverride,
   skills |-> NoOverride]

\* The record plugins.map builds of an entry.  Reading a field of a number
\* or a string gives undefined.
NormalizedOf(json, p) ==
  [name |-> p.name,
   pluginRoot |-> OrElse(OrElse(json.pluginRoot, json.metaPluginRoot), Str(<<>>)),
   source |-> p.source,
   overrides |-> [commands |-> p.commands, agents |-> p.agents, hooks |-> p.hooks,
                  mcpServers |-> p.mcpServers]]

HasName(p) == Truthy(p.name)

\* normalizePlugins(json): threw is TRUE when p.name is read of a null entry.
normalizePlugins(json) ==
  IF json.t # "obj" \/ json.plugins.t # "arr"
  THEN [threw |-> FALSE, list |-> <<>>]
  ELSE LET entries == json.plugins.a
       IN IF \E i \in 1..Len(entries) : entries[i].t \in {"null", "undef"}
          THEN [threw |-> TRUE, list |-> <<>>]
          ELSE [threw |-> FALSE,
                list |-> SelectSeq([i \in 1..Len(entries) |-> NormalizedOf(json, entries[i])],
                                   HasName)]

\* The resource types by the field that names them, and their directories.
Sections == {"commands", "agents", "hooks", "skills"}
SectionDir == [commands |-> S_commands, agents |-> S_agents, hooks |-> S_hooks,
               skills |-> S_skills]

\* overrides?.<kind>: undefined for a field the overrides record lacks.
OverrideOf(overrides, kind) ==
  IF kind \in DOMAIN overrides THEN overrides[kind] ELSE NoOverride

\* ------------------------------------------------------------------------
\* Array.prototype.sort on strings
\* ------------------------------------------------------------------------

\* The characters of the model in code-unit order.
CharOrder ==
  <<"-", ".", "/", "0","1","2","3","4","5","6","7","8","9", ":">> \o UpperLetters
  \o <<"_">> \o LowerLetters

CharRank(c) ==
  IF \E i \in 1..Len(CharOrder) : CharOrder[i] = c
  THEN CHOOSE i \in 1..Len(CharOrder) : CharOrder[i] = c
  ELSE 0

StrLess(a, b) ==
  LET n == IF Len(a) < Len(b) THEN Len(a) ELSE Len(b)
      diff == {i \in 1..n : a[i] # b[i]}
  IN IF diff = {} THEN Len(a) < Len(b)
     ELSE CharRank(a[MinOf(diff)]) < CharRank(b[MinOf(diff)])

RECURSIVE SortedSeq(_)
SortedSeq(S) ==
  IF S = {} THEN <<>>
  ELSE LET m == CHOOSE x \in S : \A y \in S \ {x} : StrLess(x, y)
       IN <<m>> \o SortedSeq(S \ {m})

\* ------------------------------------------------------------------------
\* marketplace.js: scanPluginLocal
\* ------------------------------------------------------------------------

\* A scan result.  skillsDefined is FALSE for the result that has no skills
\* field; threw is TRUE when the scan ended in an exception.
ScanResult(commands, agents, hooks, skills, skillsDefined, errors, threw) ==
  [commands |-> commands, agents |-> agents, hooks |-> hooks, skills |-> skills,
   skillsDefined |-> skillsDefined, errors |-> errors, threw |-> threw]

\* let scan = { commands: [], agents: [], hooks: [], errors: [] }
DefaultScan == ScanResult(<<>>, <<>>, <<>>, <<>>, FALSE, <<>>, FALSE)

EmptyScan == ScanResult(<<>>, <<>>, <<>>, <<>>, TRUE, <<>>, FALSE)

ScanThrew == ScanResult(<<>>, <<>>, <<>>, <<>>, FALSE, <<>>, TRUE)

\* An entry of errors: the message's fixed part, the label or path it
\* mentions, and the HTTP status behind it (0 for none).
ScanError(msg, label, status) == [msg |-> msg, label |-> label, status |-> status]

listMarkdownFilesLocal(dir) ==
  IF ~FsIsDir(dir) THEN <<>>
  ELSE SortedSeq({PathJoin(dir, f) : f \in {g \in FsReaddir(dir) : EndsWith(g, S_md)}})

listFilesLocal(dir) ==
  IF ~FsIsDir(dir) THEN <<>>
  ELSE SortedSeq({q \in {PathJoin(dir, f) : f \in FsReaddir(dir)} : FsIsFile(q)})

listSkillsLocal(dir) ==
  IF ~FsIsDir(dir) THEN <<>>
  ELSE SortedSeq({PathJoin(dir, f) :
                    f \in {g \in FsReaddir(dir) :
                             /\ FsIsDir(PathJoin(dir, g))
                             /\ FsExists(PathJoin3(dir, g, S_SKILLmd))}})

\* The directory of a section: the override when it is a non-empty string.
LocalSectionDir(localDir, overrides, kind) ==
  LET ov == OverrideOf(overrides, kind)
  IN IF Truthy(ov) /\ ov.t = "str" THEN PathResolve(localDir, ov.s)
     ELSE PathJoin(localDir, SectionDir[kind])

\* overrides.<kind>.map((p) => path.resolve(localDir, p)).filter(keep)
LocalOverrideList(localDir, a, keep(_)) ==
  SelectSeq([i \in 1..Len(a) |-> PathResolve(localDir, a[i].s)], keep)

\* path.resolve throws on an element that is not a string.
OverrideListThrows(overrides, kind) ==
  LET ov == OverrideOf(overrides, kind)
  IN ov.t = "arr" /\ \E i \in 1..Len(ov.a) : ov.a[i].t # "str"

KeepMarkdownLocal(q) == EndsWith(q, S_md) /\ FsExists(q)
KeepFileLocal(q) == FsIsFile(q)
KeepDirLocal(q) == FsIsDir(q)

S_localNotFound == "Local source not found"

scanPluginLocal(localDir, overrides) ==
  IF ~FsIsDir(localDir)
  THEN ScanResult(<<>>, <<>>, <<>>, <<>>, TRUE,
                  <<ScanError(S_localNotFound, localDir, 0)>>, FALSE)
  ELSE IF \E kind \in Sections : OverrideListThrows(overrides, kind)
  THEN ScanThrew
  ELSE LET ovc == OverrideOf(overrides, "commands")
           ova == OverrideOf(overrides, "agents")
           ovh == OverrideOf(overrides, "hooks")
           ovs == OverrideOf(overrides, "skills")
       IN ScanResult(
            IF ovc.t = "arr" THEN LocalOverrideList(localDir, ovc.a, KeepMarkdownLocal)
            ELSE listMarkdownFilesLocal(LocalSectionDir(localDir, overrides, "commands")),
            IF ova.t = "arr" THEN LocalOverrideList(localDir, ova.a, KeepMarkdownLocal)
            ELSE listMarkdownFilesLocal(LocalSectionDir(localDir, overrides, "agents")),
            IF ovh.t = "arr" THEN LocalOverrideList(localDir, ovh.a, KeepFileLocal)
            ELSE listFilesLocal(LocalSectionDir(localDir, overrides, "hooks")),
            IF ovs.t = "arr" THEN LocalOverrideList(localDir, ovs.a, KeepDirLocal)
            ELSE listSkillsLocal(LocalSectionDir(localDir, overrides, "skills")),
            TRUE, <<>>, FALSE)


\* ------------------------------------------------------------------------
\* The remote repository, as the hosting APIs answer for it
\* ------------------------------------------------------------------------

\* A repository path as the servers and the tree listing compare it:
\* without leading, trailing or repeated slashes.
TreeNormalize(p) == Join(FilterNonEmpty(SplitSlash(p)), S_slash)

\* The one repository the world holds: o/r on GitHub, namespace o/r on GitLab.
GithubRepoKnown(owner, repo) == owner = S_o /\ repo = S_r
GitlabRepoKnown(namespacePath) == namespacePath = S_ownerRepo

\* The blobs below a directory, and what is left of their paths below it.
BlobsBelow(p) ==
  LET prefix == TreeNormalize(p) \o S_slash
  IN {b \in w_repo : Len(b) > Len(prefix) /\ StartsWith(b, prefix)}

Remainder(b, p) == SliceFrom(b, Len(TreeNormalize(p)) + 1)

RepoIsBlob(p) == TreeNormalize(p) \in w_repo
RepoIsDir(p) == TreeNormalize(p) # <<>> /\ BlobsBelow(p) # {}

\* The entries directly in a directory: its files and its subdirectories.
RepoChildFiles(p) == {b \in BlobsBelow(p) : Len(SplitSlash(Remainder(b, p))) = 1}
RepoChildDirs(p) ==
  {SplitSlash(Remainder(b, p))[1] :
     b \in {c \in BlobsBelow(p) : Len(SplitSlash(Remainder(c, p))) >= 2}}

FaultAnswers == IF faults > 0 THEN {"500"} ELSE {}

\* The blobs of the tree response below a directory, and the files directly
\* in it.  A response marked truncated holds only some of the blobs.
TreeBlobsBelow(p) ==
  LET prefix == TreeNormalize(p) \o S_slash
  IN {b \in w_tree : Len(b) > Len(prefix) /\ StartsWith(b, prefix)}

TreeChildFiles(p) == {b \in TreeBlobsBelow(p) : Len(SplitSlash(Remainder(b, p))) = 1}

\* Whether the server marks its tree response truncated: true
TreeTruncated == w_tree # w_repo

\* GET /repos/o/r/git/trees/<ref>?recursive=1: 200 with {tree, truncated},
\* or 404.
TreeAnswers(owner, repo, ref) ==
  FaultAnswers
  \cup {IF GithubRepoKnown(owner, repo) /\ RefExists(ref)
        THEN IF TreeTruncated THEN "truncated" ELSE "ok"
        ELSE "404"}

\* githubGetRepoTree takes a response as the tree when json.tree is an
\* array; json.truncated is not read.
TreeAccepted(answer) == answer \in {"ok", "truncated"}

\* GET /repos/o/r/contents/<path>?ref=<ref>: an array for a directory, an
\* object for a file, 404 for neither.
GithubListAnswers(owner, repo, ref, p) ==
  FaultAnswers
  \cup {IF ~GithubRepoKnown(owner, repo) \/ ~RefExists(ref) THEN "404"
        ELSE IF RepoIsDir(p) THEN "ok"
        ELSE IF RepoIsBlob(p) THEN "object"
        ELSE "404"}

\* GET /projects/<ns>/repository/tree?path=<path>&ref=<ref>: the entries of
\* a directory. The endpoint lists trees only: for a path that is no
\* directory of the ref (a file, or nothing at all) the server answers
\* either an empty array or 404, depending on its version.
GitlabListAnswers(namespacePath, ref, p) ==
  FaultAnswers
  \cup (IF ~GitlabRepoKnown(namespacePath) \/ ~RefExists(ref) THEN {"404"}
        ELSE IF RepoIsDir(p) THEN {"ok"}
        ELSE {"empty", "404"})

\* toRawUrl(owner, repo, ref, repoPath)
toRawUrl(owner, repo, ref, repoPath) ==
  S_rawHost \o S_slash \o owner \o S_slash \o repo \o S_slash \o ref \o S_slash
  \o StripLeadingSlash(repoPath)

S_dashRaw == <<"/","-","/","r","a","w","/">>

\* toGitlabRawUrl(namespacePath, ref, repoPath)
toGitlabRawUrl(namespacePath, ref, repoPath) ==
  S_gitlabHost \o S_slash \o namespacePath \o S_dashRaw \o ref \o S_slash
  \o StripLeadingSlash(repoPath)

\* ------------------------------------------------------------------------
\* marketplace.js: scanPluginGithub and scanPluginGitlab, the pure parts
\* ------------------------------------------------------------------------

\* commandsPath, agentsPath, hooksPath, skillsPath of either remote scanner
RemoteSectionPath(base, overrides, kind) ==
  LET ov == OverrideOf(overrides, kind)
  IN IF ov.t = "str" THEN PathJoin(base, ov.s) ELSE PathJoin(base, SectionDir[kind])

\* The filter of a section: Markdown names only, except for hooks.
SectionKeeps(kind, repoPath) == kind = "hooks" \/ IsMarkdownName(repoPath)

\* listFromTree(pathInRepo, filterFn) on a tree that was got
listFromTree(gh, pathInRepo, kind) ==
  IF TreeNormalize(pathInRepo) = <<>> THEN <<>>
  ELSE LET kept == SortedSeq({b \in TreeChildFiles(pathInRepo) : SectionKeeps(kind, b)})
       IN [i \in 1..Len(kept) |-> toRawUrl(gh.owner, gh.repo, gh.ref, kept[i])]

\* listViaApi on an array answer: the files among the entries
GithubApiFiles(gh, pathInRepo, kind) ==
  LET kept == SortedSeq({b \in RepoChildFiles(pathInRepo) : SectionKeeps(kind, b)})
  IN [i \in 1..Len(kept) |-> toRawUrl(gh.owner, gh.repo, gh.ref, kept[i])]

\* The recognised skill directory names below a path of the tree:
\* parts.length >= 2 && parts[1] === 'SKILL.md'
TreeSkillDirs(pathInRepo) ==
  {SplitSlash(Remainder(b, pathInRepo))[1] :
     b \in {c \in TreeBlobsBelow(pathInRepo) :
              LET parts == SplitSlash(Remainder(c, pathInRepo))
              IN Len(parts) >= 2 /\ parts[2] = S_SKILLmd}}

\* listSkillsFromTree(pathInRepo) on a tree that was got
listSkillsFromTree(gh, pathInRepo) ==
  IF TreeNormalize(pathInRepo) = <<>> THEN <<>>
  ELSE LET dirs == SortedSeq(TreeSkillDirs(pathInRepo))
       IN [i \in 1..Len(dirs) |->
             toRawUrl(gh.owner, gh.repo, gh.ref,
                      TreeNormalize(pathInRepo) \o S_slash \o dirs[i])]

\* An override file list of a GitHub section
GithubOverrideList(gh, a, kind) ==
  LET joined == [i \in 1..Len(a) |-> PathJoin(gh.path, a[i].s)]
      keep(q) == SectionKeeps(kind, q) \/ kind = "skills"
      kept == SelectSeq(joined, keep)
  IN [i \in 1..Len(kept) |-> toRawUrl(gh.owner, gh.repo, gh.ref, kept[i])]

\* GitLab resolveSection on an array answer: the blobs among the entries
GitlabApiFiles(gl, pathInRepo, kind) ==
  LET kept == SortedSeq({b \in RepoChildFiles(pathInRepo) : SectionKeeps(kind, b)})
  IN [i \in 1..Len(kept) |-> toGitlabRawUrl(gl.namespacePath, gl.ref, kept[i])]

\* An override file list of a GitLab section
GitlabOverrideList(gl, a, kind) ==
  LET joined == [i \in 1..Len(a) |-> PathJoin(gl.path, a[i].s)]
      keep(q) == SectionKeeps(kind, q) \/ kind = "skills"
      kept == SelectSeq(joined, keep)
  IN [i \in 1..Len(kept) |-> toGitlabRawUrl(gl.namespacePath, gl.ref, kept[i])]

\* `${repo}/${path}`: the label an error message carries
SectionLabel(repo, pathInRepo) == repo \o S_slash \o pathInRepo


\* ------------------------------------------------------------------------
\* marketplace.js: discoverPlugins
\* ------------------------------------------------------------------------

\* const normalized = normalizePlugins(marketplaceJson): an exception of
\* normalizePlugins leaves discoverPlugins.
DiscoverStart ==
  /\ pc = "loaded"
  /\ LET n == normalizePlugins(loaded.json)
     IN /\ normalized' = n.list
        /\ idx' = 1
        /\ pc' = IF n.threw THEN "discoverThrew"
                 ELSE IF n.list = <<>> THEN "discovered" ELSE "resolve"
  /\ results' = <<>>
  /\ UNCHANGED <<flVars, rsVars, wzVars, htVars, runVars, worldVars, faults, requests, loadVars, resolved, tree, sec, scan, probes,
                 githubTreeCache, plan>>

\* The program point of the scanner of a resolved source.
ScannerOf(kind) ==
  IF kind = "local" THEN "scanLocal"
  ELSE IF kind = "github" THEN "ghTree"
  ELSE IF kind = "gitlab" THEN "glSection"
  ELSE IF kind = "unsupported" THEN "noScan"
  ELSE "discoverThrew"

\* const resolved = resolvePluginSource(p, context), outside the try: an
\* exception of it leaves discoverPlugins.
ResolvePlugin ==
  /\ pc = "resolve"
  /\ LET p == normalized[idx]
         r == resolvePluginSource([source |-> p.source, pluginRoot |-> p.pluginRoot,
                                   overrides |-> p.overrides], loaded.context)
     IN /\ resolved' = r
        /\ pc' = ScannerOf(r.kind)
  /\ scan' = EmptyScan
  /\ sec' = 1
  /\ tree' = "none"
  /\ probes' = <<>>
  /\ UNCHANGED <<flVars, rsVars, wzVars, htVars, runVars, worldVars, faults, requests, loadVars, normalized, idx, githubTreeCache,
                 results, plan>>

\* results.push({name, resolved, commands, agents, hooks, skills, errors})
\* of a finished scan, and the turn to the next plugin.
PushResult(sc) ==
  /\ results' = Append(results,
                       [name |-> normalized[idx].name, resolved |-> resolved,
                        commands |-> sc.commands, agents |-> sc.agents, hooks |-> sc.hooks,
                        skills |-> sc.skills, skillsDefined |-> sc.skillsDefined,
                        errors |-> sc.errors])
  /\ idx' = idx + 1
  /\ pc' = IF idx = Len(normalized) THEN "discovered" ELSE "resolve"

\* A source of kind unsupported is not scanned.
ScanUnsupported ==
  /\ pc = "noScan"
  /\ PushResult(DefaultScan)
  /\ UNCHANGED <<flVars, rsVars, wzVars, htVars, runVars, worldVars, faults, requests, loadVars, normalized, resolved, tree, sec,
                 scan, probes, githubTreeCache, plan>>

\* scan = await scanPluginLocal(...); an exception is caught and leaves
\* the initial scan.
ScanLocal ==
  /\ pc = "scanLocal"
  /\ LET sc == scanPluginLocal(resolved.localDir, resolved.overrides)
     IN /\ scan' = IF sc.threw THEN DefaultScan ELSE sc
        /\ PushResult(IF sc.threw THEN DefaultScan ELSE sc)
  /\ UNCHANGED <<flVars, rsVars, wzVars, htVars, runVars, worldVars, faults, requests, loadVars, normalized, resolved, tree, sec,
                 probes, githubTreeCache, plan>>

\* A cache key that no later plugin's scan finds again.
TreeKeyPerPlugin(gh) == <<gh.owner, gh.repo, gh.ref, idx>>

\* const key = `${owner}/${repo}@${ref}`
TreeKey(gh) == <<gh.owner, gh.repo, gh.ref>>

\* tree = await githubGetRepoTree(...): from the cache, or by one request;
\* any failure only sets treeFailed.
GithubTree ==
  /\ pc = "ghTree"
  /\ IF TreeKey(resolved) \in githubTreeCache
     THEN /\ tree' = "ok"
          /\ UNCHANGED <<faults, requests, githubTreeCache>>
     ELSE \E answer \in TreeAnswers(resolved.owner, resolved.repo, resolved.ref) :
            /\ requests' = Append(requests, Req("tree", "github", resolved.ref, <<>>,
                                                answer, idx))
            /\ faults' = FaultsAfter(answer)
            /\ tree' = IF TreeAccepted(answer) THEN "ok" ELSE "failed"
            /\ githubTreeCache' = IF TreeAccepted(answer)
                                  THEN githubTreeCache \cup {TreeKey(resolved)}
                                  ELSE githubTreeCache
  /\ pc' = "ghSection"
  /\ UNCHANGED <<flVars, rsVars, wzVars, htVars, runVars, worldVars, loadVars, normalized, idx, resolved, sec, scan, probes,
                 results, plan>>

\* The sections awaited in another order.
SectionSeqAgentsFirst == <<"agents", "commands", "hooks">>

\* The order of the awaits of resolveSection in both remote scanners.
SectionSeq == <<"commands", "agents", "hooks">>

\* The scan after a section gave its list, its error dropped.
WithSectionNoErrors(sc, kind, list, errs) == [sc EXCEPT ![kind] = list]

\* The scan after a section gave its list and, possibly, an error.
WithSection(sc, kind, list, errs) ==
  [sc EXCEPT ![kind] = list, !.errors = sc.errors \o errs]

\* The steps common to the ends of the remote section actions.
NextSection(after) ==
  /\ sec' = sec + 1
  /\ pc' = IF sec = Len(SectionSeq) THEN after ELSE pc

\* An exception in a remote scanner: caught by discoverPlugins.
ScanCaught ==
  /\ scan' = DefaultScan
  /\ PushResult(DefaultScan)
  /\ UNCHANGED sec

\* await resolveSection(...) of scanPluginGithub for commands, agents, hooks
GithubSection ==
  /\ pc = "ghSection"
  /\ LET kind == SectionSeq[sec]
         ov == OverrideOf(resolved.overrides, kind)
         pathInRepo == RemoteSectionPath(resolved.path, resolved.overrides, kind)
         label == SectionLabel(resolved.repo, pathInRepo)
     IN IF ov.t = "arr"
        THEN /\ IF OverrideListThrows(resolved.overrides, kind)
                THEN ScanCaught
                ELSE /\ scan' = WithSection(scan, kind,
                                            GithubOverrideList(resolved, ov.a, kind), <<>>)
                     /\ NextSection("ghSkills")
                     /\ UNCHANGED <<results, idx>>
             /\ UNCHANGED <<faults, requests>>
        ELSE IF tree = "ok"
        THEN /\ scan' = WithSection(scan, kind, listFromTree(resolved, pathInRepo, kind), <<>>)
             /\ NextSection("ghSkills")
             /\ UNCHANGED <<faults, requests, results, idx>>
        ELSE \E answer \in GithubListAnswers(resolved.owner, resolved.repo, resolved.ref,
                                             pathInRepo) :
               /\ requests' = Append(requests, Req("list", "github", resolved.ref,
                                                   pathInRepo, answer, idx))
               /\ faults' = FaultsAfter(answer)
               /\ scan' = IF answer = "ok"
                          THEN WithSection(scan, kind,
                                           GithubApiFiles(resolved, pathInRepo, kind), <<>>)
                          ELSE IF answer = "404" THEN WithSection(scan, kind, <<>>, <<>>)
                          ELSE IF answer = "object"
                          THEN WithSection(scan, kind, <<>>,
                                 <<ScanError("GitHub API unexpected response", label, 0)>>)
                          ELSE WithSection(scan, kind, <<>>,
                                 <<ScanError("GitHub API error", label, 500)>>)
               /\ NextSection("ghSkills")
               /\ UNCHANGED <<results, idx>>
  /\ UNCHANGED <<flVars, rsVars, wzVars, htVars, runVars, worldVars, loadVars, normalized, resolved, tree, probes, githubTreeCache,
                 plan>>

\* await resolveSkills(...) of scanPluginGithub up to its first probe
GithubSkills ==
  /\ pc = "ghSkills"
  /\ LET ov == OverrideOf(resolved.overrides, "skills")
         pathInRepo == RemoteSectionPath(resolved.path, resolved.overrides, "skills")
         label == SectionLabel(resolved.repo, pathInRepo)
         done(sc) == scan' = sc /\ PushResult(sc) /\ UNCHANGED probes
     IN IF ov.t = "arr"
        THEN /\ IF OverrideListThrows(resolved.overrides, "skills")
                THEN done(DefaultScan)
                ELSE done(WithSection(scan, "skills",
                                      GithubOverrideList(resolved, ov.a, "skills"), <<>>))
             /\ UNCHANGED <<faults, requests>>
        ELSE IF tree = "ok"
        THEN /\ done(WithSection(scan, "skills", listSkillsFromTree(resolved, pathInRepo),
                                 <<>>))
             /\ UNCHANGED <<faults, requests>>
        ELSE \E answer \in GithubListAnswers(resolved.owner, resolved.repo, resolved.ref,
                                             pathInRepo) :
               /\ requests' = Append(requests, Req("list", "github", resolved.ref,
                                                   pathInRepo, answer, idx))
               /\ faults' = FaultsAfter(answer)
               /\ IF answer = "ok" /\ RepoChildDirs(pathInRepo) # {}
                  THEN /\ probes' = SortedSeq(RepoChildDirs(pathInRepo))
                       /\ scan' = scan
                       /\ pc' = "ghProbe"
                       /\ UNCHANGED <<results, idx>>
                  ELSE IF answer = "500"
                  THEN done(WithSection(scan, "skills", <<>>,
                                        <<ScanError("GitHub API error", label, 500)>>))
                  ELSE done(scan)
  /\ UNCHANGED <<flVars, rsVars, wzVars, htVars, runVars, worldVars, loadVars, normalized, resolved, tree, sec, githubTreeCache,
                 plan>>

\* What a request for <dir>/SKILL.md answers on GitHub.
GithubProbeAnswers(gh, p) ==
  FaultAnswers
  \cup {IF GithubRepoKnown(gh.owner, gh.repo) /\ RefExists(gh.ref)
           /\ (RepoIsBlob(p) \/ RepoIsDir(p))
        THEN "ok" ELSE "404"}

\* One turn of the probe loop of resolveSkills: any failure of the probe
\* means "not a skill".
GithubProbe ==
  /\ pc = "ghProbe"
  /\ LET pathInRepo == RemoteSectionPath(resolved.path, resolved.overrides, "skills")
         dir == Head(probes)
         skillMdPath == PathJoin3(pathInRepo, dir, S_SKILLmd)
     IN \E answer \in GithubProbeAnswers(resolved, skillMdPath) :
          LET found == IF answer = "ok"
                       THEN <<toRawUrl(resolved.owner, resolved.repo, resolved.ref,
                                       PathJoin(pathInRepo, dir))>>
                       ELSE <<>>
              sc == [scan EXCEPT !.skills = scan.skills \o found]
          IN /\ requests' = Append(requests, Req("probe", "github", resolved.ref,
                                                 skillMdPath, answer, idx))
             /\ faults' = FaultsAfter(answer)
             /\ scan' = sc
             /\ probes' = Tail(probes)
             /\ IF Tail(probes) = <<>>
                THEN PushResult(sc)
                ELSE UNCHANGED <<results, idx, pc>>
  /\ UNCHANGED <<flVars, rsVars, wzVars, htVars, runVars, worldVars, loadVars, normalized, resolved, tree, sec, githubTreeCache,
                 plan>>


\* await resolveSection(...) of scanPluginGitlab for commands, agents, hooks
GitlabSection ==
  /\ pc = "glSection"
  /\ LET kind == SectionSeq[sec]
         ov == OverrideOf(resolved.overrides, kind)
         pathInRepo == RemoteSectionPath(resolved.path, resolved.overrides, kind)
         label == SectionLabel(resolved.repo, pathInRepo)
     IN IF ov.t = "arr"
        THEN /\ IF OverrideListThrows(resolved.overrides, kind)
                THEN ScanCaught
                ELSE /\ scan' = WithSection(scan, kind,
                                            GitlabOverrideList(resolved, ov.a, kind), <<>>)
                     /\ NextSection("glSkills")
                     /\ UNCHANGED <<results, idx>>
             /\ UNCHANGED <<faults, requests>>
        ELSE \E answer \in GitlabListAnswers(resolved.namespacePath, resolved.ref,
                                             pathInRepo) :
               /\ requests' = Append(requests, Req("list", "gitlab", resolved.ref,
                                                   pathInRepo, answer, idx))
               /\ faults' = FaultsAfter(answer)
               /\ scan' = IF answer = "ok"
                          THEN WithSection(scan, kind,
                                           GitlabApiFiles(resolved, pathInRepo, kind), <<>>)
                          ELSE IF answer \in {"404", "empty"}
                          THEN WithSection(scan, kind, <<>>, <<>>)
                          ELSE WithSection(scan, kind, <<>>,
                                 <<ScanError("GitLab API error", label, 500)>>)
               /\ NextSection("glSkills")
               /\ UNCHANGED <<results, idx>>
  /\ UNCHANGED <<flVars, rsVars, wzVars, htVars, runVars, worldVars, loadVars, normalized, resolved, tree, probes, githubTreeCache,
                 plan>>

\* await resolveSkills(...) of scanPluginGitlab up to its first probe
GitlabSkills ==
  /\ pc = "glSkills"
  /\ LET ov == OverrideOf(resolved.overrides, "skills")
         pathInRepo == RemoteSectionPath(resolved.path, resolved.overrides, "skills")
         label == SectionLabel(resolved.repo, pathInRepo)
         done(sc) == scan' = sc /\ PushResult(sc) /\ UNCHANGED probes
     IN IF ov.t = "arr"
        THEN /\ IF OverrideListThrows(resolved.overrides, "skills")
                THEN done(DefaultScan)
                ELSE done(WithSection(scan, "skills",
                                      GitlabOverrideList(resolved, ov.a, "skills"), <<>>))
             /\ UNCHANGED <<faults, requests>>
        ELSE \E answer \in GitlabListAnswers(resolved.namespacePath, resolved.ref,
                                             pathInRepo) :
               /\ requests' = Append(requests, Req("list", "gitlab", resolved.ref,
                                                   pathInRepo, answer, idx))
               /\ faults' = FaultsAfter(answer)
               /\ IF answer = "ok" /\ RepoChildDirs(pathInRepo) # {}
                  THEN /\ probes' = SortedSeq(RepoChildDirs(pathInRepo))
                       /\ scan' = scan
                       /\ pc' = "glProbe"
                       /\ UNCHANGED <<results, idx>>
                  ELSE IF answer = "500"
                  THEN done(WithSection(scan, "skills", <<>>,
                                        <<ScanError("GitLab API error", label, 500)>>))
                  ELSE done(scan)
  /\ UNCHANGED <<flVars, rsVars, wzVars, htVars, runVars, worldVars, loadVars, normalized, resolved, tree, sec, githubTreeCache,
                 plan>>

\* One turn of the probe loop of the GitLab resolveSkills: the probe is a
\* tree listing of <dir>/SKILL.md, and any failure means "not a skill".
GitlabProbe ==
  /\ pc = "glProbe"
  /\ LET pathInRepo == RemoteSectionPath(resolved.path, resolved.overrides, "skills")
         dir == Head(probes)
         skillMdPath == PathJoin3(pathInRepo, dir, S_SKILLmd)
     IN \E answer \in GitlabListAnswers(resolved.namespacePath, resolved.ref, skillMdPath) :
          LET found == IF answer \in {"ok", "empty"}
                       THEN <<toGitlabRawUrl(resolved.namespacePath, resolved.ref,
                                             PathJoin(pathInRepo, dir))>>
                       ELSE <<>>
              sc == [scan EXCEPT !.skills = scan.skills \o found]
          IN /\ requests' = Append(requests, Req("probe", "gitlab", resolved.ref,
                                                 skillMdPath, answer, idx))
             /\ faults' = FaultsAfter(answer)
             /\ scan' = sc
             /\ probes' = Tail(probes)
             /\ IF Tail(probes) = <<>>
                THEN PushResult(sc)
                ELSE UNCHANGED <<results, idx, pc>>
  /\ UNCHANGED <<flVars, rsVars, wzVars, htVars, runVars, worldVars, loadVars, normalized, resolved, tree, sec, githubTreeCache,
                 plan>>

DiscoverNext ==
  \/ DiscoverStart
  \/ ResolvePlugin
  \/ ScanUnsupported
  \/ ScanLocal
  \/ GithubTree
  \/ GithubSection
  \/ GithubSkills
  \/ GithubProbe
  \/ GitlabSection
  \/ GitlabSkills
  \/ GitlabProbe

\* ------------------------------------------------------------------------
\* marketplace-planner.js: computeMarketplacePlan
\* ------------------------------------------------------------------------

\* selectedPlugins: 'all', or an array of names.
SelectAll == [all |-> TRUE, names |-> {}]
SelectNames(names) == [all |-> FALSE, names |-> names]

\* The four destination directories; one not passed is undefined.
DestDirs(commands, droids, hooks, skills) ==
  [commands |-> commands, droids |-> droids, hooks |-> hooks, skills |-> skills]

PlanItem(plugin, name, src, dest) ==
  [plugin |-> plugin, name |-> name, src |-> src,
   srcType |-> IF isUrl(src) THEN "remote" ELSE "local", dest |-> dest]

UnresolvedEntry(plugin, reason) == [plugin |-> plugin, reason |-> reason]

RECURSIVE Concat(_)
Concat(seqs) == IF seqs = <<>> THEN <<>> ELSE Head(seqs) \o Concat(Tail(seqs))

\* hasCommands || hasAgents || hasHooks || hasSkills
HasResources(p) ==
  p.commands # <<>> \/ p.agents # <<>> \/ p.hooks # <<>> \/ p.skills # <<>>

\* What the loop body pushes to unresolved for one plugin.
UnresolvedOf(p) ==
  [i \in 1..Len(p.errors) |-> UnresolvedEntry(p.name, p.errors[i])]
  \o (IF ~HasResources(p) /\ p.errors = <<>>
      THEN <<UnresolvedEntry(p.name,
                ScanError(IF p.resolved.reason # "" THEN p.resolved.reason
                          ELSE "No components found", <<>>, 0))>>
      ELSE <<>>)

\* The items of a loop body that skips every plugin with scan errors.
ItemsOfErrorFree(p, field, kind, dir, ext) ==
  IF ~HasResources(p) \/ p.errors # <<>> THEN <<>>
  ELSE [i \in 1..Len(p[field]) |->
          PlanItem(p.name, flattenName(p[field][i], kind), p[field][i],
                   PathJoin(dir.s, flattenName(p[field][i], kind) \o ext))]

\* What the loop body pushes to one list of items for one plugin: nothing
\* for a plugin without resources; dest is path.join(dir, name + ext).
ItemsOf(p, field, kind, dir, ext) ==
  IF ~HasResources(p) THEN <<>>
  ELSE [i \in 1..Len(p[field]) |->
          PlanItem(p.name, flattenName(p[field][i], kind), p[field][i],
                   PathJoin(dir.s, flattenName(p[field][i], kind) \o ext))]

\* path.join throws on a directory that is not a string, when the loop
\* body reaches a resource of that type.
PlanThrows(selected, dirs) ==
  \E i \in 1..Len(selected) :
    /\ HasResources(selected[i])
    /\ \/ selected[i].commands # <<>> /\ dirs.commands.t # "str"
       \/ selected[i].agents # <<>> /\ dirs.droids.t # "str"
       \/ selected[i].hooks # <<>> /\ dirs.hooks.t # "str"
       \/ selected[i].skills # <<>> /\ dirs.skills.t # "str"

NoPlan == [threw |-> TRUE, commands |-> <<>>, droids |-> <<>>, hooks |-> <<>>,
           skills |-> <<>>, unresolved |-> <<>>]

computeMarketplacePlan(selectedPlugins, discovered, dirs) ==
  LET isSelected(p) == selectedPlugins.all \/ p.name \in selectedPlugins.names
      selected == SelectSeq(discovered, isSelected)
      n == Len(selected)
  IN IF PlanThrows(selected, dirs) THEN NoPlan
     ELSE [threw |-> FALSE,
           commands |-> Concat([i \in 1..n |->
                          ItemsOf(selected[i], "commands", S_commands, dirs.commands, S_md)]),
           droids |-> Concat([i \in 1..n |->
                          ItemsOf(selected[i], "agents", S_agents, dirs.droids, S_md)]),
           hooks |-> Concat([i \in 1..n |->
                          ItemsOf(selected[i], "hooks", S_hooks, dirs.hooks, S_md)]),
           skills |-> Concat([i \in 1..n |->
                          ItemsOf(selected[i], "skills", S_skills, dirs.skills, <<>>)]),
           unresolved |-> Concat([i \in 1..n |-> UnresolvedOf(selected[i])])]


\* The calls of computeMarketplacePlan explored.
Selections == {SelectAll, SelectNames({}), SelectNames({Str(<<"a">>)})}

AllDestDirs == DestDirs(Str(<<"/","c">>), Str(<<"/","d">>), Str(<<"/","h">>), Str(<<"/","s">>))
RunDestDirs == DestDirs(Str(<<"/","c">>), Str(<<"/","d">>), Undef, Undef)
DestDirChoices == {AllDestDirs, RunDestDirs}

\* const plan = computeMarketplacePlan({selectedPlugins, discovered, ...}),
\* with all four destination directories or, as run() of command-convert.js
\* calls it, with those of commands and droids only.
Plan ==
  /\ pc = "discovered"
  /\ \E selectedPlugins \in Selections, dirs \in DestDirChoices :
       plan' = [selectedPlugins |-> selectedPlugins, dirs |-> dirs,
                out |-> computeMarketplacePlan(selectedPlugins, results, dirs)]
  /\ pc' = "planned"
  /\ UNCHANGED <<flVars, rsVars, wzVars, htVars, runVars, worldVars, faults, requests, loadVars, normalized, idx, resolved, tree,
                 sec, scan, probes, githubTreeCache, results>>

\* ------------------------------------------------------------------------
\* The runs explored
\* ------------------------------------------------------------------------

MaxFiles == 2
MaxFaults == 2
MaxPlugins == 2

S_manifestRel == S_claudePlugin \o S_slash \o S_marketplaceJson
S_marketDir == <<"/","m">>
S_manifestFile == S_marketDir \o S_slash \o S_manifestRel
S_p == <<"p">>
S_dotP == <<".","/","p">>
S_a == <<"a">>
S_b == <<"b">>

\* A plugin entry with a name and a source and no overrides.
PlainEntry(name, source) ==
  Entry(Str(name), source, NoOverride, NoOverride, NoOverride, NoOverride)

OnePlugin(name, src) ==
  Manifest(Undef, Undef, PluginsArray(<<PlainEntry(name, ScalarSource(Str(src)))>>))

\* The marketplace inputs, one of each kind loadMarketplace tells apart.
S_rawUrl == S_rawHost \o <<"/","o","/","r","/","m","a","i","n","/">> \o S_manifestRel
S_githubUrl == S_https \o S_githubCom \o <<"/","o","/","r">>
S_gitlabUrl == S_https \o S_gitlabCom \o <<"/","o","/","r">>
S_genericUrl == S_https \o <<"x",".","o","r","g","/">> \o S_marketplaceJson

RemoteInputs == {S_ownerRepo, S_rawUrl, S_githubUrl, S_gitlabUrl, S_genericUrl}

LocalInputs == {<<>>, S_marketDir, S_manifestFile, <<"/","m","/","x",".","j","s","o","n">>, <<"/","n">>, <<"m","/","p">>}

\* The files a plugin directory may hold, relative to it.
PluginFiles ==
  {<<"c","o","m","m","a","n","d","s","/","a",".","m","d">>, <<"c","o","m","m","a","n","d","s","/","c",".","m","d">>, <<"c","o","m","m","a","n","d","s","/","w","/","b",".","m","d">>, <<"a","g","e","n","t","s","/","x",".","m","d">>, <<"h","o","o","k","s","/","h",".","s","h">>,
   <<"s","k","i","l","l","s","/","f","/","S","K","I","L","L",".","m","d">>, <<"s","k","i","l","l","s","/","g","/","s","k","i","l","l",".","m","d">>, <<"s","k","i","l","l","s","/","h","/","s","u","b","/","S","K","I","L","L",".","m","d">>}

PluginFileSets == {F \in SUBSET PluginFiles : Cardinality(F) <= MaxFiles}

Under(dir, F) == {dir \o S_slash \o f : f \in F}

AllRefs(v) == [r \in RemoteRefs |-> v]
OnlyMain == [AllRefs("absent") EXCEPT ![S_main] = "ok"]

\* No run in progress: loadMarketplace is about to be called.
RunStart ==
  /\ pc = "load"
  /\ refsToTry = <<>>
  /\ lastErr = NoErr
  /\ requests = <<>>
  /\ loaded = NotLoaded
  /\ normalized = <<>>
  /\ idx = 0
  /\ resolved = <<>>
  /\ tree = "none"
  /\ sec = 0
  /\ scan = EmptyScan
  /\ probes = <<>>
  /\ githubTreeCache = {}
  /\ results = <<>>
  /\ plan = <<>>

\* The marketplace directory of the end-to-end example: plugin demo with two
\* commands, one of them nested, and one skill.
S_demo == <<"d","e","m","o">>
DemoFiles ==
  {<<"c","o","m","m","a","n","d","s","/","p","l","a","n",".","m","d">>, <<"c","o","m","m","a","n","d","s","/","w","o","r","k","f","l","o","w","s","/","r","e","v","i","e","w",".","m","d">>, <<"s","k","i","l","l","s","/","f","r","o","n","t","e","n","d","/","S","K","I","L","L",".","m","d">>}

InitDemo ==
  /\ w_fs = {S_manifestFile} \cup Under(S_marketDir \o S_slash \o S_demo, DemoFiles)
  /\ w_caseSensitive \in BOOLEAN
  /\ w_localOk = TRUE
  /\ w_repo = {}
  /\ w_tree = {}
  /\ w_refs = AllRefs("absent")
  /\ w_manifest = OnePlugin(S_demo, <<".","/","d","e","m","o">>)
  /\ faults = 0
  /\ input \in {S_marketDir, S_manifestFile}
  /\ refArg = <<>>

\* Loading: every kind of input against every state of the remote refs and
\* of the local manifest.
InitLoadLocal ==
  /\ w_fs \in {{S_manifestFile} \cup Under(S_marketDir \o S_slash \o S_claudePlugin \o <<"/","p">>,
                                           {<<"c","o","m","m","a","n","d","s","/","a",".","m","d">>}),
               {<<"/","m","/","x",".","j","s","o","n">>}, {<<"/","m","/",".","c","l","a","u","d","e","-","p","l","u","g","i","n","/","m","a","r","k","e","t","p","l","a","c","e",".","j","s","o","n","/","x">>}}
  /\ w_caseSensitive = TRUE
  /\ w_localOk \in BOOLEAN
  /\ w_repo = {}
  /\ w_tree = {}
  /\ w_refs = AllRefs("absent")
  /\ w_manifest = OnePlugin(S_a, S_dotP)
  /\ faults = 0
  /\ input \in LocalInputs
  /\ refArg \in {<<>>, S_dev}

InitLoadRemote ==
  /\ w_fs = {}
  /\ w_caseSensitive = TRUE
  /\ w_localOk = TRUE
  /\ w_repo = {S_manifestRel, <<"p","/","c","o","m","m","a","n","d","s","/","a",".","m","d">>}
  /\ w_tree = w_repo
  /\ w_refs \in [RemoteRefs -> {"ok", "malformed", "nomanifest", "absent"}]
  /\ w_manifest = OnePlugin(S_a, S_dotP)
  /\ faults \in 0..(MaxFaults - 1)
  /\ input \in RemoteInputs
  /\ refArg \in {<<>>, S_dev}


\* Scanning: one plugin a at ./p holding any few of the plugin files, on
\* each kind of host.
S_localPluginDir == S_marketDir \o S_slash \o S_claudePlugin \o S_slash \o S_p

ScanOverrides ==
  {NoOverride, DirOverride(<<"c","m","d","s">>), ListOverride(<<Str(<<"c","o","m","m","a","n","d","s","/","a",".","m","d">>), Str(<<"x",".","t","x","t">>)>>)}

ScanManifests ==
  {Manifest(Undef, Undef,
            PluginsArray(<<Entry(Str(S_a), ScalarSource(Str(S_dotP)), ov, NoOverride,
                                 NoOverride, NoOverride)>>)) : ov \in ScanOverrides}
  \cup {Manifest(Undef, Undef,
                 PluginsArray(<<Entry(Str(S_a), ScalarSource(Str(S_dotP)), NoOverride,
                                      ListOverride(<<Num>>), NoOverride, NoOverride)>>))}

InitScanLocal ==
  /\ \E F \in PluginFileSets : w_fs = {S_manifestFile} \cup Under(S_localPluginDir, F)
  /\ w_caseSensitive \in BOOLEAN
  /\ w_localOk = TRUE
  /\ w_repo = {}
  /\ w_tree = {}
  /\ w_refs = AllRefs("absent")
  /\ w_manifest \in ScanManifests
  /\ faults = 0
  /\ input = S_marketDir
  /\ refArg = <<>>

InitScanRemote ==
  /\ w_fs = {}
  /\ w_caseSensitive = TRUE
  /\ w_localOk = TRUE
  /\ \E F \in PluginFileSets : w_repo = {S_manifestRel} \cup Under(S_p, F)
  /\ w_tree = w_repo
  /\ w_refs = OnlyMain
  /\ w_manifest \in ScanManifests
  /\ faults \in 0..MaxFaults
  /\ input \in {S_ownerRepo, S_gitlabUrl}
  /\ refArg = <<>>

\* Manifests: up to MaxPlugins entries of every shape, in a marketplace
\* whose plugin directory p holds one command.
GithubObject(ref) ==
  ObjectSource([NoFields EXCEPT !.source = Str(S_github), !.repo = Str(S_ownerRepo),
                                !.ref = ref, !.path = Str(S_p)])

EntryChoices ==
  {PlainEntry(S_a, ScalarSource(Str(S_dotP))),
   PlainEntry(S_b, ScalarSource(Str(S_dotP))),
   PlainEntry(S_b, ScalarSource(Str(<<".","/","q">>))),
   PlainEntry(S_a, ScalarSource(Undef)),
   PlainEntry(S_b, ObjectSource([NoFields EXCEPT !.source = Num])),
   PlainEntry(S_b, GithubObject(Undef)),
   PlainEntry(S_b, GithubObject(Str(S_dev))),
   PlainEntry(S_b, ObjectSource([NoFields EXCEPT !.source = Str(S_git),
                                                 !.url = Str(S_gitlabUrl),
                                                 !.path = Str(S_p)])),
   Entry(Undef, ScalarSource(Str(S_dotP)), NoOverride, NoOverride, NoOverride, NoOverride),
   Entry(Str(S_b), ScalarSource(Str(S_dotP)), ListOverride(<<Num>>), NoOverride,
         NoOverride, NoOverride),
   Entry(Str(S_b), ScalarSource(Str(S_dotP)), NoOverride, NoOverride, NoOverride,
         DirOverride(<<"s","k">>)),
   ScalarEntry("null"),
   ScalarEntry("num")}

EntryLists ==
  UNION {[1..n -> EntryChoices] : n \in 0..MaxPlugins}

ManifestChoices ==
  {Manifest(Undef, Undef, PluginsArray(a)) : a \in EntryLists}
  \cup {Manifest(root, meta, PluginsArray(<<PlainEntry(S_a, ScalarSource(Str(S_dotP)))>>)) :
          root \in {Undef, Num, Str(<<"r","t">>)}, meta \in {Undef, Str(<<"r","t">>)}}
  \cup {Manifest(Undef, Undef, PluginsOther("undef")),
        Manifest(Undef, Undef, PluginsOther("obj")), NullManifest}

InitManifests ==
  /\ w_fs = {S_manifestFile} \cup Under(S_localPluginDir, {<<"c","o","m","m","a","n","d","s","/","a",".","m","d">>})
  /\ w_caseSensitive = TRUE
  /\ w_localOk = TRUE
  /\ w_repo = {S_manifestRel, <<"p","/","c","o","m","m","a","n","d","s","/","a",".","m","d">>}
  /\ w_tree = w_repo
  /\ w_refs \in {OnlyMain, [OnlyMain EXCEPT ![S_dev] = "nomanifest"]}
  /\ w_manifest \in ManifestChoices
  /\ faults = 0
  /\ input \in {S_marketDir, S_ownerRepo}
  /\ refArg = <<>>

Init ==
  /\ FlattenIdle
  /\ ResolveIdle
  /\ HttpIdle
  /\ WizardIdle
  /\ RunIdle
  /\ RunStart
  /\ \/ InitDemo
     \/ InitLoadLocal
     \/ InitLoadRemote
     \/ InitScanLocal
     \/ InitScanRemote
     \/ InitManifests

Next ==
  \/ LoadNoInput
  \/ LoadLocal
  \/ FetchShorthand
  \/ FetchRawUrl
  \/ FetchGithubRepoUrl
  \/ FetchGitlabRepoUrl
  \/ FetchGenericUrl
  \/ DiscoverStart
  \/ ResolvePlugin
  \/ ScanUnsupported
  \/ ScanLocal
  \/ GithubTree
  \/ GithubSection
  \/ GithubSkills
  \/ GithubProbe
  \/ GitlabSection
  \/ GitlabSkills
  \/ GitlabProbe
  \/ Plan

\* The whole run: load, discover, plan.
Spec == Init /\ [][Next]_vars

\* loadMarketplace alone.
SpecLoad == Init /\ [][LoadNext]_vars

\* ------------------------------------------------------------------------
\* scanPluginGithub against tree responses that may be truncated
\* ------------------------------------------------------------------------

\* One plugin a at ./p of o/r@main; the tree response holds any part of the
\* repository's blobs, and is marked truncated when it does not hold all.
TreeInit ==
  /\ FlattenIdle
  /\ ResolveIdle
  /\ HttpIdle
  /\ WizardIdle
  /\ RunIdle
  /\ RunStart
  /\ w_fs = {}
  /\ w_caseSensitive = TRUE
  /\ w_localOk = TRUE
  /\ \E F \in PluginFileSets : w_repo = {S_manifestRel} \cup Under(S_p, F)
  /\ w_tree \in SUBSET w_repo
  /\ w_refs = OnlyMain
  /\ w_manifest \in ScanManifests
  /\ faults \in 0..1
  /\ input = S_ownerRepo
  /\ refArg = <<>>

TreeNext ==
  \/ FetchShorthand
  \/ DiscoverStart
  \/ ResolvePlugin
  \/ GithubTree
  \/ GithubSection
  \/ GithubSkills
  \/ GithubProbe

SpecTree == TreeInit /\ [][TreeNext]_vars

\* ------------------------------------------------------------------------
\* fs-utils.js: copyFile, downloadToFile
\* ------------------------------------------------------------------------

\* The content of the file or URL src, and of a file a write stream has
\* opened and not yet filled.
ContentAt(src) == <<"content", src>>
Truncated == <<"truncated">>

\* fs.existsSync(dest)
DestExists(fs, dest) == dest \in DOMAIN fs

\* fs.copyFileSync, and the end of a piped response: dest holds content.
WriteFile(fs, dest, content) == (dest :> content) @@ fs

\* fs.unlink(dest)
Unlink(fs, dest) == [f \in (DOMAIN fs) \ {dest} |-> fs[f]]

CopyOutcome(fs, result) == [fs |-> fs, result |-> result]

\* A copy that does not look at dest or force.
copyFileForced(fs, src, dest, force) ==
  CopyOutcome(WriteFile(fs, dest, ContentAt(src)), "written")

copyFile(fs, src, dest, force) ==
  IF DestExists(fs, dest) /\ ~force THEN CopyOutcome(fs, "skipped")
  ELSE CopyOutcome(WriteFile(fs, dest, ContentAt(src)), "written")

\* downloadToFile up to the request: 'skipped' at once for a dest that
\* exists without force, else the write stream on dest is opened.
downloadToFileBegin(fs, dest, force) ==
  IF DestExists(fs, dest) /\ ~force THEN CopyOutcome(fs, "skipped")
  ELSE CopyOutcome(WriteFile(fs, dest, Truncated), "pending")

\* What the request of downloadToFile ends with: a 2xx response, another
\* status, or an error of the request.
DownloadAnswers == {"ok", "status", "error"}

\* downloadToFile from the response on: the body piped to dest, or dest
\* unlinked; an error of the request rejects.
downloadToFileEnd(fs, src, dest, answer) ==
  IF answer = "ok" THEN CopyOutcome(WriteFile(fs, dest, ContentAt(src)), "written")
  ELSE IF answer = "status" THEN CopyOutcome(Unlink(fs, dest), "skipped")
  ELSE CopyOutcome(Unlink(fs, dest), "rejected")

\* ------------------------------------------------------------------------
\* spinner.js
\* ------------------------------------------------------------------------

\* start(label): null when stdout is no terminal, else the timer.
SpinnerStart(tty) == IF tty THEN "running" ELSE "null"

\* stop(timer): nothing for null, else clearInterval.
SpinnerStop(timer) == IF timer = "null" THEN "null" ELSE "cleared"

\* The line of the terminal after stop(timer): cleared unless timer is null.
LineAfterStop(timer, line) == IF timer = "null" THEN line ELSE "clean"

\* The line of the terminal when a timer was started.
LineAfterStart(timer, line) == IF timer = "running" THEN "spinner" ELSE line

\* ------------------------------------------------------------------------
\* command-convert.js: run, the marketplace branch
\* ------------------------------------------------------------------------

Args(force, yes, plugins) == [force |-> force, yes |-> yes, plugins |-> plugins]

Exit(how, code) == [how |-> how, code |-> code]

S_comma == <<",">>
S_all == <<"a","l","l">>

RECURSIVE SplitComma(_)
SplitComma(s) ==
  LET i == IndexOf(s, S_comma)
  IN IF i = 0 THEN <<s>>
     ELSE <<SubSeq(s, 1, i - 1)>> \o SplitComma(SubSeq(s, i + 1, Len(s)))

RECURSIVE Trim(_)
Trim(s) ==
  IF s # <<>> /\ Head(s) = " " THEN Trim(Tail(s))
  ELSE IF s # <<>> /\ s[Len(s)] = " " THEN Trim(SubSeq(s, 1, Len(s) - 1))
  ELSE s

\* selectedPlugins of run(): 'all' for no --plugins and for 'all', else
\* the names between the commas, trimmed, the empty ones dropped.
SelectedPlugins(plugins) ==
  IF plugins.t = "undef" \/ plugins = Str(S_all) THEN SelectAll
  ELSE IF plugins.t = "str"
  THEN LET parts == SplitComma(plugins.s)
           names == FilterNonEmpty([i \in 1..Len(parts) |-> Trim(parts[i])])
       IN SelectNames({Str(names[i]) : i \in 1..Len(names)})
  ELSE SelectNames({})

\* The items in the order of the two loops: commands, then droids.
LoopItems(out) == out.commands \o out.droids

\* One handled item: copyResults.<list>.set(item.name, {result, existed}),
\* kept with the position of the item in the loops and what it copied.
CopyResult(it, k, result, existed) ==
  [plugin |-> it.plugin, name |-> it.name, item |-> k, src |-> it.src, dest |-> it.dest,
   result |-> result, existed |-> existed]

\* The two loops from item k on, up to the first download that is awaited
\* or to their end: a local item whose source is missing is passed over,
\* another is copied; a remote item is downloaded.
RECURSIVE RunLoop(_, _, _, _, _)
RunLoop(items, force, fs, k, done) ==
  IF k > Len(items) THEN [fs |-> fs, item |-> k, copyResults |-> done, pending |-> FALSE]
  ELSE LET it == items[k]
           existed == DestExists(fs, it.dest)
       IN IF it.srcType = "local"
          THEN IF it.src \notin w_fs
               THEN RunLoop(items, force, fs, k + 1, done)
               ELSE LET c == copyFile(fs, it.src, it.dest, force)
                    IN RunLoop(items, force, c.fs, k + 1,
                               Append(done, CopyResult(it, k, c.result, existed)))
          ELSE LET d == downloadToFileBegin(fs, it.dest, force)
               IN IF d.result = "skipped"
                  THEN RunLoop(items, force, fs, k + 1,
                               Append(done, CopyResult(it, k, "skipped", existed)))
                  ELSE [fs |-> d.fs, item |-> k,
                        copyResults |-> Append(done, CopyResult(it, k, "pending", existed)),
                        pending |-> TRUE]

\* run() from the loops on, where they stand at loop: at an awaited
\* download with the listener registered and the spinner on, or past the
\* finally block and the summary.
AfterLoop(loop, timer) ==
  /\ destFs' = loop.fs
  /\ item' = loop.item
  /\ copyResults' = loop.copyResults
  /\ IF loop.pending
     THEN /\ pc' = "download"
          /\ spinnerTimer' = timer
          /\ sigintHandler' = TRUE
          /\ terminal' = LineAfterStart(timer, terminal)
          /\ exit' = exit
     ELSE /\ pc' = "installed"
          /\ spinnerTimer' = "null"
          /\ sigintHandler' = FALSE
          /\ terminal' = LineAfterStop(timer, LineAfterStart(timer, terminal))
          /\ exit' = Exit("return", 0)

\* The list of the plan an item of the loops belongs to.
ListOfItem(out, k) == IF k <= Len(out.commands) THEN "commands" ELSE "droids"

\* copyResults.<list>.get(name): the entry set last under that name, with
\* result "unset" when none was.
MapGet(out, log, list, name) ==
  LET K == {k \in 1..Len(log) : ListOfItem(out, log[k].item) = list /\ log[k].name = name}
  IN IF K = {} THEN [result |-> "unset", existed |-> FALSE]
     ELSE [result |-> log[MaxOf(K)].result, existed |-> log[MaxOf(K)].existed]

\* 'Count results' of run(): the items of the plan whose name maps to
\* 'written', split by existed, and the values of the two maps that are
\* 'skipped'.
CountResults(out, log) ==
  LET items == LoopItems(out)
      get(j) == MapGet(out, log, ListOfItem(out, j), items[j].name)
      written == {j \in 1..Len(items) : get(j).result = "written"}
      keys == {<<ListOfItem(out, log[k].item), log[k].name>> : k \in 1..Len(log)}
  IN [created |-> Cardinality({j \in written : ~get(j).existed}),
      overwritten |-> Cardinality({j \in written : get(j).existed}),
      skipped |-> Cardinality({key \in keys :
                                 MapGet(out, log, key[1], key[2]).result = "skipped"})]

\* run() from confirmIfNeeded's return on: the listener, the spinner, the
\* loops.
InstallBegin(cargs, out) ==
  /\ confirmedArgs' = cargs
  /\ AfterLoop(RunLoop(LoopItems(out), cargs.force, destFs, 1, <<>>),
               SpinnerStart(isTTY))

\* canPrompt() && !args.yes
Interactive == isTTY /\ ~args.yes

\* The catch of the fetch: console.error and process.exit(1); fetchSpin is
\* not stopped.
RunFetchFailed ==
  /\ pc \in {"loadFailed", "discoverThrew"}
  /\ pc' = "exited"
  /\ exit' = Exit("exit", 1)
  /\ UNCHANGED <<flVars, rsVars, wzVars, htVars, worldVars, faults, requests, loadVars, discVars,
                 args, isTTY, confirmedArgs, fetchSpin, spinnerTimer, sigintHandler, terminal,
                 destFs, destFs0, item, copyResults>>

\* run() once discoverPlugins returned: spinner.stop(fetchSpin), the
\* selection, computeMarketplacePlan with the directories of commands and
\* droids; its exception leaves run(); without commands and droids run()
\* returns; without a prompt the installation begins.
RunPlan ==
  /\ pc = "discovered"
  /\ fetchSpin' = SpinnerStop(fetchSpin)
  /\ LET out == computeMarketplacePlan(SelectedPlugins(args.plugins), results, RunDestDirs)
     IN /\ plan' = [selectedPlugins |-> SelectedPlugins(args.plugins), dirs |-> RunDestDirs,
                    out |-> out]
        /\ IF out.threw
           THEN /\ pc' = "runThrew"
                /\ exit' = Exit("throw", 1)
                /\ terminal' = LineAfterStop(fetchSpin, terminal)
                /\ UNCHANGED <<confirmedArgs, spinnerTimer, sigintHandler, destFs, item,
                               copyResults>>
           ELSE IF out.commands = <<>> /\ out.droids = <<>>
           THEN /\ pc' = "returned"
                /\ exit' = Exit("return", 0)
                /\ terminal' = LineAfterStop(fetchSpin, terminal)
                /\ UNCHANGED <<confirmedArgs, spinnerTimer, sigintHandler, destFs, item,
                               copyResults>>
           ELSE IF Interactive
           THEN /\ pc' = "confirm"
                /\ terminal' = LineAfterStop(fetchSpin, terminal)
                /\ UNCHANGED <<confirmedArgs, spinnerTimer, sigintHandler, destFs, item,
                               copyResults, exit>>
           ELSE InstallBegin(args, out)
  /\ UNCHANGED <<flVars, rsVars, wzVars, htVars, worldVars, faults, requests, loadVars, normalized,
                 idx, resolved, tree, sec, scan, probes, githubTreeCache, results,
                 args, isTTY, destFs0>>

\* The answers to 'Proceed? [y] Yes / [f] Force overwrite / [n] Cancel'.
ConfirmAnswers == {"y", "f", "n"}

\* The answer to the prompt of confirmIfNeeded arrives: n exits with 0, f
\* sets force, and the installation begins.
Confirm ==
  /\ pc = "confirm"
  /\ \E answer \in ConfirmAnswers :
       IF answer = "n"
       THEN /\ pc' = "exited"
            /\ exit' = Exit("exit", 0)
            /\ UNCHANGED <<confirmedArgs, spinnerTimer, sigintHandler, terminal, destFs, item,
                           copyResults>>
       ELSE InstallBegin(IF answer = "f" THEN [args EXCEPT !.force = TRUE] ELSE args,
                         plan.out)
  /\ UNCHANGED <<flVars, rsVars, wzVars, htVars, worldVars, faults, requests, loadVars, discVars,
                 args, isTTY, fetchSpin, destFs0>>

\* The download awaited ends: its result is recorded and the loops go on;
\* a rejection runs the finally block and leaves run().
DownloadDone ==
  /\ pc = "download"
  /\ \E answer \in DownloadAnswers :
       LET items == LoopItems(plan.out)
           it == items[item]
           d == downloadToFileEnd(destFs, it.src, it.dest, answer)
           before == SubSeq(copyResults, 1, Len(copyResults) - 1)
           existed == copyResults[Len(copyResults)].existed
       IN IF d.result = "rejected"
          THEN /\ destFs' = d.fs
               /\ copyResults' = before
               /\ spinnerTimer' = "null"
               /\ sigintHandler' = FALSE
               /\ terminal' = LineAfterStop(spinnerTimer, terminal)
               /\ pc' = "runThrew"
               /\ exit' = Exit("throw", 1)
               /\ UNCHANGED item
          ELSE AfterLoop(RunLoop(items, confirmedArgs.force, d.fs, item + 1,
                                 Append(before, CopyResult(it, item, d.result, existed))),
                         spinnerTimer)
  /\ UNCHANGED <<flVars, rsVars, wzVars, htVars, worldVars, faults, requests, loadVars, discVars,
                 args, isTTY, confirmedArgs, fetchSpin, destFs0>>

\* run() waits for the network: for the marketplace or for a download.
AwaitsNetwork ==
  \/ pc = "download"
  \/ /\ pc \in {"load", "loadRetry", "ghTree"}
     /\ isUrl(input) \/ isOwnerRepoShorthand(input)

\* SIGINT while run() waits: the listener of run(), when registered, stops
\* spinnerTimer, prints and exits with 130; without a listener the signal
\* ends the process and nothing of run() is executed.
Sigint ==
  /\ AwaitsNetwork
  /\ pc' = "interrupted"
  /\ IF sigintHandler
     THEN /\ spinnerTimer' = SpinnerStop(spinnerTimer)
          /\ terminal' = LineAfterStop(spinnerTimer, terminal)
          /\ exit' = Exit("exit", 130)
     ELSE /\ exit' = Exit("signal", 0)
          /\ UNCHANGED <<spinnerTimer, terminal>>
  /\ UNCHANGED <<flVars, rsVars, wzVars, htVars, worldVars, faults, requests, loadVars, discVars,
                 args, isTTY, confirmedArgs, fetchSpin, sigintHandler, destFs, destFs0, item,
                 copyResults>>

\* The install runs explored: a marketplace of two plugins p and q, local
\* or at o/r, each with a command a.md and p with one more resource.
S_q == <<"q">>
S_cmdA == <<"c","o","m","m","a","n","d","s","/","a",".","m","d">>
S_agentA == <<"a","g","e","n","t","s","/","a",".","m","d">>
S_hookH == <<"h","o","o","k","s","/","h",".","m","d">>
S_skillF == <<"s","k","i","l","l","s","/","f","/","S","K","I","L","L",".","m","d">>

InstallFilesP == {{S_cmdA}, {S_cmdA, S_agentA}, {S_cmdA, S_hookH}, {S_cmdA, S_skillF}}
InstallFilesQ == {{}, {S_cmdA}}

TwoPlugins ==
  Manifest(Undef, Undef,
           PluginsArray(<<PlainEntry(S_a, ScalarSource(Str(S_dotP))),
                          PlainEntry(S_b, ScalarSource(Str(<<".","/","q">>)))>>))

\* The destinations that may hold a file before the run.
OldDests == {<<"/","c","/","a",".","m","d">>, <<"/","d","/","a",".","m","d">>}
OldContent == <<"old">>

InstallWorldLocal ==
  /\ \E P \in InstallFilesP, Q \in InstallFilesQ :
       w_fs = {S_manifestFile} \cup Under(S_localPluginDir, P)
              \cup Under(S_marketDir \o S_slash \o S_claudePlugin \o S_slash \o S_q, Q)
  /\ w_repo = {}
  /\ w_tree = {}
  /\ w_refs = AllRefs("absent")
  /\ input = S_marketDir

InstallWorldRemote ==
  /\ w_fs = {}
  /\ \E P \in InstallFilesP, Q \in InstallFilesQ :
       w_repo = {S_manifestRel} \cup Under(S_p, P) \cup Under(S_q, Q)
  /\ w_tree = w_repo
  /\ w_refs \in {OnlyMain, AllRefs("absent")}
  /\ input = S_ownerRepo

\* run() at its first await: the spinner of the fetch started on a
\* terminal, loadMarketplace called.
InstallInit ==
  /\ FlattenIdle
  /\ ResolveIdle
  /\ HttpIdle
  /\ WizardIdle
  /\ RunStart
  /\ InstallWorldLocal \/ InstallWorldRemote
  /\ w_caseSensitive = TRUE
  /\ w_localOk = TRUE
  /\ w_manifest = TwoPlugins
  /\ faults = 0
  /\ refArg = <<>>
  /\ args \in {Args(force, yes, plugins) :
                 force \in BOOLEAN, yes \in BOOLEAN, plugins \in {Undef, Str(S_a)}}
  /\ isTTY \in BOOLEAN
  /\ confirmedArgs = <<>>
  /\ fetchSpin = SpinnerStart(isTTY)
  /\ spinnerTimer = "null"
  /\ sigintHandler = FALSE
  /\ terminal = LineAfterStart(fetchSpin, "clean")
  /\ \E D \in SUBSET OldDests : destFs = [f \in D |-> OldContent]
  /\ destFs0 = destFs
  /\ item = 0
  /\ copyResults = <<>>
  /\ exit = <<>>

InstallNext ==
  \/ LoadLocal
  \/ FetchShorthand
  \/ DiscoverStart
  \/ ResolvePlugin
  \/ ScanLocal
  \/ GithubTree
  \/ GithubSection
  \/ GithubSkills
  \/ RunFetchFailed
  \/ RunPlan
  \/ Confirm
  \/ DownloadDone
  \/ Sigint

SpecInstall == InstallInit /\ [][InstallNext]_vars

\* ------------------------------------------------------------------------
\* The guided flow of run(): scope, source, then the sub-flow of the source
\* ------------------------------------------------------------------------

\* How often a restart of the wizard is counted.
MaxResets == 2

\* The keys that end a prompt: Enter submits; Esc and q cancel.
Keys == {"return", "escape", "q"}

RESET == "RESET"

\* attachEscReset: what the keypress listener does to the prompt.
attachEscReset(key) ==
  [__reset |-> key = "escape", cancelled |-> key \in {"escape", "q"}]

\* runWithReset as it would be if Esc were not told apart from Enter.
runWithResetSubmitsOnEsc(key, value) ==
  IF key = "q" THEN [how |-> "exit", value |-> value] ELSE [how |-> "value", value |-> value]

\* runWithReset: the submitted value, RESET when the prompt was cancelled with
\* __reset set; a cancel without it ends the process in onCancel.
runWithReset(key, value) ==
  LET prompt == attachEscReset(key)
  IN IF ~prompt.cancelled THEN [how |-> "value", value |-> value]
     ELSE IF prompt.__reset THEN [how |-> RESET, value |-> value]
     ELSE [how |-> "exit", value |-> value]

Scopes == {"personal", "project"}
ImportSources == {"templates", "marketplace"}
MarketplaceInputs == {"owner/repo", "./market"}
AvailableCommands == {<<>>, <<"c1">>}
AvailableDroids == {<<>>, <<"d1">>}
DiscoveredLists == {<<>>, <<"p1", "p2">>}

\* What a MultiSelect can give: the choices kept, in the order of the list.
RECURSIVE Keep(_, _, _)
Keep(list, S, i) ==
  IF i > Len(list) THEN <<>>
  ELSE (IF i \in S THEN <<list[i]>> ELSE <<>>) \o Keep(list, S, i + 1)

Picks(list) == {Keep(list, S, 1) : S \in SUBSET (1..Len(list))}

\* Array.prototype.join(',') of names.
RECURSIVE JoinComma(_)
JoinComma(names) ==
  IF names = <<>> THEN ""
  ELSE IF Len(names) = 1 THEN names[1]
  ELSE names[1] \o "," \o JoinComma(Tail(names))

\* The locals of guidedTemplatesFlowFromScope when it is entered.
TemplatesLocals ==
  [step |-> "installAll", installAll |-> "null", chosenCommands |-> <<>>,
   chosenDroids |-> <<>>, force |-> FALSE]

\* The locals of guidedMarketplaceFlowFromScope when it is entered.
MarketplaceLocals ==
  [step |-> "marketplace", marketplace |-> "", discovered |-> <<>>, installAll |-> "null",
   chosenPlugins |-> <<>>, force |-> FALSE]

\* The object guidedTemplatesFlowFromScope returns; "unset" for a key it does not set.
TemplatesArgs(scope, l) ==
  [scope |-> scope, path |-> IF scope = "project" THEN "cwd" ELSE "", force |-> l.force,
   yes |-> TRUE,
   commands |-> IF l.installAll THEN "all"
                ELSE IF l.chosenCommands # <<>> THEN JoinComma(l.chosenCommands) ELSE "unset",
   droids |-> IF l.installAll THEN "all"
              ELSE IF l.chosenDroids # <<>> THEN JoinComma(l.chosenDroids) ELSE "unset",
   noCommands |-> IF l.installAll THEN "false"
                  ELSE IF l.chosenCommands # <<>> THEN "unset" ELSE "true",
   noDroids |-> IF l.installAll THEN "false"
                ELSE IF l.chosenDroids # <<>> THEN "unset" ELSE "true"]

\* The args guidedMarketplaceFlowFromScope returns.
MarketplaceArgs(scope, l) ==
  [scope |-> scope, marketplace |-> l.marketplace, yes |-> TRUE, force |-> l.force,
   plugins |-> IF l.installAll THEN "all" ELSE JoinComma(l.chosenPlugins)]

wizardRest == <<flVars, rsVars, htVars, runVars, pipelineVars>>

WizardInit ==
  /\ wz_step = "scope"
  /\ wz_scopeChoice = "null"
  /\ wz_srcChoice = "null"
  /\ wz_flow = <<>>
  /\ \E c \in AvailableCommands, d \in AvailableDroids :
       wz_avail = [availableCommands |-> c, availableDroids |-> d]
  /\ wz_key = [key |-> "none", at |-> "none"]
  /\ wz_answered = {}
  /\ wz_resets = 0
  /\ wz_args = <<>>
  /\ wz_written = FALSE
  /\ FlattenIdle
  /\ ResolveIdle
  /\ PipelineIdle
  /\ RunIdle
  /\ HttpIdle

\* run: what each branch does when the prompt gave RESET.
WizardRestart ==
  /\ wz_scopeChoice' = "null"
  /\ wz_srcChoice' = "null"
  /\ wz_step' = "scope"
  /\ wz_flow' = <<>>
  /\ wz_answered' = {}
  /\ wz_resets' = IF wz_resets < MaxResets THEN wz_resets + 1 ELSE wz_resets
  /\ UNCHANGED <<wz_avail, wz_args, wz_written>>

\* onCancel without __reset: 'Cancelled.' and process.exit(0).
WizardCancelled ==
  /\ wz_step' = "exited"
  /\ UNCHANGED <<wz_scopeChoice, wz_srcChoice, wz_flow, wz_avail, wz_answered, wz_resets,
                 wz_args, wz_written>>

\* A step of a sub-flow: the prompt at is answered and the locals become l.
FlowStep(at, l) ==
  /\ wz_flow' = l
  /\ wz_answered' = wz_answered \cup {at}
  /\ UNCHANGED <<wz_step, wz_scopeChoice, wz_srcChoice, wz_avail, wz_resets, wz_args, wz_written>>

\* The sub-flow returns its args; run assigns them to args and leaves the loop.
FlowDone(l, a) ==
  /\ wz_flow' = l
  /\ wz_answered' = wz_answered \cup {"force"}
  /\ wz_args' = a
  /\ wz_step' = "handed"
  /\ UNCHANGED <<wz_scopeChoice, wz_srcChoice, wz_avail, wz_resets, wz_written>>

\* A prompt ended by key: restart, exit, or the step next takes with the value.
Prompted(at, key, res, next) ==
  /\ wz_key' = [key |-> key, at |-> at]
  /\ CASE res.how = RESET -> WizardRestart
       [] res.how = "exit" -> WizardCancelled
       [] OTHER -> next
  /\ UNCHANGED wizardRest

\* step 'scope': selectScope.
selectScope ==
  /\ wz_step = "scope"
  /\ \E key \in Keys, choice \in Scopes :
       LET res == runWithReset(key, choice)
       IN Prompted("scope", key, res,
            /\ wz_scopeChoice' = res.value
            /\ wz_step' = "source"
            /\ wz_answered' = wz_answered \cup {"scope"}
            /\ UNCHANGED <<wz_srcChoice, wz_flow, wz_avail, wz_resets, wz_args, wz_written>>)

\* step 'source': chooseImportSource; the sub-flow chosen is entered next.
chooseImportSource ==
  /\ wz_step = "source"
  /\ \E key \in Keys, choice \in ImportSources :
       LET res == runWithReset(key, choice)
       IN Prompted("source", key, res,
            /\ wz_srcChoice' = res.value
            /\ wz_step' = "flow"
            /\ wz_flow' = IF res.value = "marketplace" THEN MarketplaceLocals ELSE TemplatesLocals
            /\ wz_answered' = wz_answered \cup {"source"}
            /\ UNCHANGED <<wz_scopeChoice, wz_avail, wz_resets, wz_args, wz_written>>)

InTemplates(step) == wz_step = "flow" /\ wz_srcChoice = "templates" /\ wz_flow.step = step

InMarketplace(step) == wz_step = "flow" /\ wz_srcChoice = "marketplace" /\ wz_flow.step = step

\* guidedTemplatesFlowFromScope, step 'installAll'.
TemplatesInstallAll ==
  /\ InTemplates("installAll")
  /\ \E key \in Keys, answer \in BOOLEAN :
       LET res == runWithReset(key, answer)
           step == IF res.value THEN "force"
                   ELSE IF wz_avail.availableCommands # <<>> THEN "commands"
                   ELSE IF wz_avail.availableDroids # <<>> THEN "droids"
                   ELSE "force"
       IN Prompted("installAll", key, res,
            FlowStep("installAll", [wz_flow EXCEPT !.installAll = res.value, !.step = step]))

\* guidedTemplatesFlowFromScope, step 'commands'.
TemplatesCommands ==
  /\ InTemplates("commands")
  /\ \E key \in Keys, answer \in Picks(wz_avail.availableCommands) :
       LET res == runWithReset(key, answer)
           step == IF wz_avail.availableDroids # <<>> THEN "droids" ELSE "force"
       IN Prompted("commands", key, res,
            FlowStep("commands", [wz_flow EXCEPT !.chosenCommands = res.value, !.step = step]))

\* guidedTemplatesFlowFromScope, step 'droids'.
TemplatesDroids ==
  /\ InTemplates("droids")
  /\ \E key \in Keys, answer \in Picks(wz_avail.availableDroids) :
       LET res == runWithReset(key, answer)
       IN Prompted("droids", key, res,
            FlowStep("droids", [wz_flow EXCEPT !.chosenDroids = res.value, !.step = "force"]))

\* guidedTemplatesFlowFromScope, step 'force', and the return of the args.
TemplatesForce ==
  /\ InTemplates("force")
  /\ \E key \in Keys, answer \in BOOLEAN :
       LET res == runWithReset(key, answer)
           l == [wz_flow EXCEPT !.force = res.value, !.step = "returned"]
       IN Prompted("force", key, res, FlowDone(l, TemplatesArgs(wz_scopeChoice, l)))

\* guidedMarketplaceFlowFromScope, step 'marketplace': the Input prompt.
MarketplaceInput ==
  /\ InMarketplace("marketplace")
  /\ \E key \in Keys, answer \in MarketplaceInputs :
       LET res == runWithReset(key, answer)
       IN Prompted("marketplace", key, res,
            FlowStep("marketplace", [wz_flow EXCEPT !.marketplace = res.value, !.step = "loading"]))

\* guidedMarketplaceFlowFromScope, step 'marketplace': loadMarketplace and
\* discoverPlugins; a failure of either ends the process with status 1.
MarketplaceLoad ==
  /\ InMarketplace("loading")
  /\ wz_key' = [key |-> "none", at |-> "loading"]
  /\ \/ /\ wz_step' = "exited"
        /\ UNCHANGED <<wz_scopeChoice, wz_srcChoice, wz_flow, wz_avail, wz_answered, wz_resets,
                       wz_args, wz_written>>
     \/ \E discovered \in DiscoveredLists :
          /\ wz_flow' = [wz_flow EXCEPT !.discovered = discovered, !.step = "installAll"]
          /\ UNCHANGED <<wz_step, wz_scopeChoice, wz_srcChoice, wz_avail, wz_answered, wz_resets,
                         wz_args, wz_written>>
  /\ UNCHANGED wizardRest

\* guidedMarketplaceFlowFromScope, step 'installAll'.
MarketplaceInstallAll ==
  /\ InMarketplace("installAll")
  /\ \E key \in Keys, answer \in BOOLEAN :
       LET res == runWithReset(key, answer)
           step == IF res.value THEN "force" ELSE "plugins"
       IN Prompted("installAll", key, res,
            FlowStep("installAll", [wz_flow EXCEPT !.installAll = res.value, !.step = step]))

\* guidedMarketplaceFlowFromScope, step 'plugins'.
MarketplacePlugins ==
  /\ InMarketplace("plugins")
  /\ \E key \in Keys, answer \in Picks(wz_flow.discovered) :
       LET res == runWithReset(key, answer)
       IN Prompted("plugins", key, res,
            FlowStep("plugins", [wz_flow EXCEPT !.chosenPlugins = res.value, !.step = "force"]))

\* guidedMarketplaceFlowFromScope, step 'force', and the return of the args.
MarketplaceForce ==
  /\ InMarketplace("force")
  /\ \E key \in Keys, answer \in BOOLEAN :
       LET res == runWithReset(key, answer)
           l == [wz_flow EXCEPT !.force = res.value, !.step = "returned"]
       IN Prompted("force", key, res, FlowDone(l, MarketplaceArgs(wz_scopeChoice, l)))

\* run, after the loop: args.yes is set, so the installer asks nothing and writes.
WizardInstall ==
  /\ wz_step = "handed"
  /\ wz_step' = "installed"
  /\ wz_written' = TRUE
  /\ wz_key' = [key |-> "none", at |-> "install"]
  /\ UNCHANGED <<wz_scopeChoice, wz_srcChoice, wz_flow, wz_avail, wz_answered, wz_resets, wz_args>>
  /\ UNCHANGED wizardRest

WizardNext ==
  \/ selectScope
  \/ chooseImportSource
  \/ TemplatesInstallAll
  \/ TemplatesCommands
  \/ TemplatesDroids
  \/ TemplatesForce
  \/ MarketplaceInput
  \/ MarketplaceLoad
  \/ MarketplaceInstallAll
  \/ MarketplacePlugins
  \/ MarketplaceForce
  \/ WizardInstall

SpecWizard == WizardInit /\ [][WizardNext]_vars



\* ------------------------------------------------------------------------
\* C1
\* ------------------------------------------------------------------------

\* The path of a locator below its resource-type directory, extension kept.
RelBelow(src, kind) ==
  LET needle == S_slash \o kind \o S_slash
  IN SliceFrom(src, IndexOf(src, needle) - 1 + Len(needle))

\* C1: two locators of one resource type in one plugin whose directory
\* structure below the type directory differs never get the same destination
\* name from flattenName.
C1_FlattenInjective ==
  (/\ fl_pc = "done"
   /\ DirPart(RelBelow(fl_srcA, fl_kind)) # DirPart(RelBelow(fl_srcB, fl_kind)))
  => fl_nameA # fl_nameB

\* ------------------------------------------------------------------------
\* C3
\* ------------------------------------------------------------------------

\* C3: resolvePluginSource is total: for every plugin record and every
\* context the call returns a result of kind local, github, gitlab or
\* unsupported; no exception leaves it.
C3_ResolveTotal ==
  rs_pc = "done" => rs_result.kind \in {"local", "github", "gitlab", "unsupported"}

\* ------------------------------------------------------------------------
\* C2
\* ------------------------------------------------------------------------

\* C2: once the marketplace is loaded, no exception leaves discoverPlugins,
\* whatever the manifest and the context.
C2_DiscoverNeverThrows == pc # "discoverThrew"

\* ------------------------------------------------------------------------
\* C4
\* ------------------------------------------------------------------------

\* The request the step in hand made, if it made one.
MadeRequest == Len(requests') = Len(requests) + 1
NewRequest == requests'[Len(requests')]

\* The resource type whose listing the scanner is at.
SectionInHand == IF pc \in {"ghSkills", "glSkills"} THEN "skills" ELSE SectionSeq[sec]

\* C4: a directory listing of a resource type that answers 404 leaves that
\* type without resources and adds no error; one that answers 500 leaves it
\* without resources and adds exactly one error, which carries the path
\* listed.
C4_ListingAnswers ==
  [][(MadeRequest /\ NewRequest.op = "list" /\ NewRequest.answer \in {"404", "500"})
     => /\ scan'[SectionInHand] = <<>>
        /\ NewRequest.answer = "404" => scan'.errors = scan.errors
        /\ NewRequest.answer = "500" =>
             /\ Len(scan'.errors) = Len(scan.errors) + 1
             /\ SubSeq(scan'.errors, 1, Len(scan.errors)) = scan.errors
             /\ scan'.errors[Len(scan'.errors)].label
                  = SectionLabel(resolved.repo, NewRequest.path)
             /\ scan'.errors[Len(scan'.errors)].status = 500]_vars

\* A plugin was scanned with one listing answering 404 and another 500, and
\* its result holds the one error.
C4_BothAnswersSeen ==
  /\ pc = "planned"
  /\ \E i, j \in 1..Len(requests) :
       /\ requests[i].op = "list" /\ requests[i].answer = "404"
       /\ requests[j].op = "list" /\ requests[j].answer = "500"
       /\ requests[i].plugin = 1 /\ requests[j].plugin = 1
  /\ Len(results[1].errors) = 1

\* ------------------------------------------------------------------------
\* C5
\* ------------------------------------------------------------------------

IsDemoRun == w_manifest = OnePlugin(S_demo, <<".","/","d","e","m","o">>)

\* C5: loading the demo marketplace, discovering and planning with all
\* plugins selected gives exactly the commands plan and workflows__review
\* and exactly the skill frontend.
C5_DemoPlan ==
  (pc = "planned" /\ IsDemoRun /\ plan.selectedPlugins.all /\ plan.dirs = AllDestDirs)
  => /\ ~plan.out.threw
     /\ Len(plan.out.commands) = 2
     /\ {plan.out.commands[i].name : i \in 1..Len(plan.out.commands)}
          = {<<"p","l","a","n">>, <<"w","o","r","k","f","l","o","w","s","_","_","r","e","v","i","e","w">>}
     /\ Len(plan.out.skills) = 1
     /\ plan.out.skills[1].name = <<"f","r","o","n","t","e","n","d">>

\* ------------------------------------------------------------------------
\* C6
\* ------------------------------------------------------------------------

IsUnsupported(i) == results[i].resolved.kind = "unsupported"
ScannedClean(i) == ~IsUnsupported(i) /\ results[i].errors = <<>>

\* The plugins discovered under a name, and the entries of a list of the
\* plan that carry it.
Named(nm) == {i \in 1..Len(results) : results[i].name = nm}
EntriesOf(list, nm) == {k \in 1..Len(list) : list[k].plugin = nm}

RECURSIVE CommandsOf(_)
CommandsOf(I) ==
  IF I = {} THEN 0
  ELSE LET i == CHOOSE j \in I : TRUE
       IN Len(results[i].commands) + CommandsOf(I \ {i})

\* C6: with all plugins selected, every unsupported plugin gets exactly one
\* unresolved entry, carrying the reason of its resolution, and no plan
\* item; every plugin scanned without errors gets as many command items as
\* it has commands and no unresolved entry.  Entries and items are told
\* apart by plugin name, so the counts are taken per name.
C6_PlanPerPlugin ==
  (pc = "planned" /\ plan.selectedPlugins.all)
  => \A i \in 1..Len(results) :
       LET nm == results[i].name
       IN (\A j \in Named(nm) : IsUnsupported(j) \/ ScannedClean(j))
          => /\ ~plan.out.threw
             /\ Cardinality(EntriesOf(plan.out.unresolved, nm))
                  = Cardinality({j \in Named(nm) : IsUnsupported(j)})
             /\ \A k \in EntriesOf(plan.out.unresolved, nm) :
                  \E j \in Named(nm) :
                    /\ IsUnsupported(j)
                    /\ plan.out.unresolved[k].reason.msg = results[j].resolved.reason
             /\ Cardinality(EntriesOf(plan.out.commands, nm))
                  = CommandsOf({j \in Named(nm) : ScannedClean(j)})
             /\ (\A j \in Named(nm) : IsUnsupported(j))
                  => /\ EntriesOf(plan.out.droids, nm) = {}
                     /\ EntriesOf(plan.out.hooks, nm) = {}
                     /\ EntriesOf(plan.out.skills, nm) = {}

\* ------------------------------------------------------------------------
\* C7
\* ------------------------------------------------------------------------

\* The directory dir holds an entry named exactly SKILL.md among the paths
\* of files; same(_, _) compares the directory parts.
HoldsSkillMd(files, dir, same(_, _)) ==
  LET d == dir \o S_slash \o S_SKILLmd
  IN \E f \in files :
       /\ Len(f) >= Len(d)
       /\ same(SubSeq(f, 1, Len(dir)), dir)
       /\ SubSeq(f, Len(dir) + 1, Len(d)) = S_slash \o S_SKILLmd
       /\ (Len(f) = Len(d) \/ f[Len(d) + 1] = "/")

ExactlySame(a, b) == a = b

\* The directory a reported skill locator names holds SKILL.md.
SkillIsReal(res, loc) ==
  IF res.kind = "local" THEN HoldsSkillMd(w_fs, loc, FsSame)
  ELSE IF res.kind = "github"
  THEN HoldsSkillMd(w_repo,
                    SliceFrom(loc, Len(toRawUrl(res.owner, res.repo, res.ref, <<>>))),
                    ExactlySame)
  ELSE HoldsSkillMd(w_repo,
                    SliceFrom(loc, Len(toGitlabRawUrl(res.namespacePath, res.ref, <<>>))),
                    ExactlySame)

AllSkillsReal ==
  \A i \in 1..Len(results) :
    \A k \in 1..Len(results[i].skills) :
      SkillIsReal(results[i].resolved, results[i].skills[k])

\* C7: in every scanner, whatever the filesystem and the server, a
\* directory is reported as a skill only if it directly holds an entry
\* named exactly SKILL.md.
C7_SkillNeedsExactSkillMd == AllSkillsReal

\* ------------------------------------------------------------------------
\* C8
\* ------------------------------------------------------------------------

AnsweredOk(i) == requests[i].answer = "ok"

\* C8: for a shorthand input without a ref, the manifest is requested at
\* main first and at master only after the request at main failed; the load
\* succeeds as soon as a request succeeds, with the ref of that request; and
\* when both fail the error raised is the one of the request at master.
C8_MainThenMaster ==
  (isOwnerRepoShorthand(input) /\ refArg = <<>> /\ pc \in {"loadRetry", "loaded", "loadFailed"})
  => /\ Len(requests) \in {1, 2}
     /\ requests[1].ref = S_main
     /\ Len(requests) = 2 => (requests[2].ref = S_master /\ ~AnsweredOk(1))
     /\ pc = "loadRetry" => (Len(requests) = 1 /\ ~AnsweredOk(1))
     /\ pc = "loaded" <=> AnsweredOk(Len(requests))
     /\ pc = "loaded" =>
          (loaded.status = "ok" /\ loaded.context.ref = requests[Len(requests)].ref)
     /\ pc = "loadFailed" =>
          /\ Len(requests) = 2
          /\ loaded.status = "error"
          /\ loaded.error = ManifestError(requests[2].answer, S_master)

\* The request at main failed, the one at master succeeded, and the load
\* returned the marketplace at master.
C8_MasterAfterMainFailed ==
  /\ isOwnerRepoShorthand(input) /\ refArg = <<>>
  /\ pc = "loaded"
  /\ Len(requests) = 2
  /\ requests[1].answer = "404"
  /\ loaded.context.ref = S_master

\* ------------------------------------------------------------------------
\* C9
\* ------------------------------------------------------------------------

IsLocalInput == input # <<>> /\ ~isUrl(input) /\ ~isOwnerRepoShorthand(input)

\* C9: for a local input that loads, the context is local and its baseDir
\* is the directory holding the manifest file read: the file of the name
\* read, taken in baseDir, is the file read, and it exists.
C9_BaseDirHoldsManifest ==
  (IsLocalInput /\ pc = "loaded")
  => LET file == IF FsIsDir(input)
                 THEN input \o S_slash \o S_manifestRel
                 ELSE input
     IN /\ loaded.context.kind = "local"
        /\ FsIsFile(file)
        /\ PathResolve(loaded.context.baseDir, Basename(file)) = PathResolve1(file)
        /\ FsIsFile(PathJoin(loaded.context.baseDir, Basename(file)))

\* A marketplace directory was loaded, and baseDir is its .claude-plugin
\* directory.
C9_DirectoryInputLoaded ==
  /\ pc = "loaded"
  /\ input = S_marketDir
  /\ loaded.context.kind = "local"
  /\ loaded.context.baseDir = S_marketDir \o S_slash \o S_claudePlugin

\* ------------------------------------------------------------------------
\* C10
\* ------------------------------------------------------------------------

TreeNotFound(i) ==
  \E k \in 1..Len(requests) :
    requests[k].op = "tree" /\ requests[k].plugin = i /\ requests[k].answer = "404"

NothingFound(i) ==
  /\ results[i].commands = <<>>
  /\ results[i].agents = <<>>
  /\ results[i].hooks = <<>>
  /\ results[i].skills = <<>>

\* C10: a plugin whose tree request answered 404 is not reported with zero
\* resources and zero errors, as a plugin at an existing ref without
\* resource directories is.
C10_RefNotFoundIsTold ==
  \A i \in 1..Len(results) :
    TreeNotFound(i) => ~(NothingFound(i) /\ results[i].errors = <<>>)

\* ------------------------------------------------------------------------
\* C12
\* ------------------------------------------------------------------------

\* The resolved source of plugin i: of a pushed result, or the one in hand.
ResolvedOf(i) == IF i <= Len(results) THEN results[i].resolved ELSE resolved

IsTreeRequest(k) == requests[k].op = "tree"

\* The (owner, repo, ref) a tree request was made for.
RequestKey(k) ==
  LET r == ResolvedOf(requests[k].plugin)
  IN <<r.owner, r.repo, r.ref>>

SameKeyTreeRequests(j, k) ==
  /\ j < k
  /\ IsTreeRequest(j) /\ IsTreeRequest(k)
  /\ RequestKey(j) = RequestKey(k)

\* C12 as stated: no two tree requests of one run are for the same
\* (owner, repo, ref).
C12_TreeOncePerKey ==
  \A j, k \in 1..Len(requests) : ~SameKeyTreeRequests(j, k)

\* C12: after a tree request for (owner, repo, ref) was answered with the
\* tree, no later tree request is made for that key; only a request that
\* failed is repeated.
C12_TreeOncePerKeyAfterSuccess ==
  \A j, k \in 1..Len(requests) :
    SameKeyTreeRequests(j, k) => requests[j].answer # "ok"

\* Two plugins of one repository and ref were scanned with the tree, and
\* the tree was requested once.
C12_SecondScanFromCache ==
  /\ pc = "discovered"
  /\ Len(results) = 2
  /\ results[1].resolved.kind = "github" /\ results[2].resolved.kind = "github"
  /\ <<results[1].resolved.owner, results[1].resolved.repo, results[1].resolved.ref>>
       = <<results[2].resolved.owner, results[2].resolved.repo, results[2].resolved.ref>>
  /\ Cardinality({k \in 1..Len(requests) : IsTreeRequest(k)}) = 1
  /\ \E k \in 1..Len(requests) :
       IsTreeRequest(k) /\ requests[k].plugin = 1 /\ requests[k].answer = "ok"

\* ------------------------------------------------------------------------
\* C13
\* ------------------------------------------------------------------------

\* The place of a resource type in the order of a plugin's scan; the tree
\* request comes before every type.
KindRank == [commands |-> 1, agents |-> 2, hooks |-> 3, skills |-> 4]

\* The resource types a request of the log can be for: the types whose
\* directory of the plugin is the path listed.  A probe is for skills.
KindsOfRequest(k) ==
  LET r == requests[k]
      src == ResolvedOf(r.plugin)
  IN IF r.op = "probe" THEN {"skills"}
     ELSE {kind \in Sections : RemoteSectionPath(src.path, src.overrides, kind) = r.path}

RanksOfRequest(k) ==
  IF IsTreeRequest(k) THEN {0} ELSE {KindRank[kind] : kind \in KindsOfRequest(k)}

IsScanRequest(k) == requests[k].op \in {"tree", "list", "probe"}

ReceivedMalformed ==
  \/ \E k \in 1..Len(requests) :
       requests[k].op = "manifest" /\ requests[k].answer = "malformed"
  \/ IsLocalInput /\ ~w_localOk

\* C17: a load that received a manifest body that is not valid JSON never
\* returns a marketplace.
C17_MalformedIsFatal == ReceivedMalformed => pc # "loaded"

\* ------------------------------------------------------------------------
\* C18
\* ------------------------------------------------------------------------

IsNamedEntry(e) == e.t = "obj" /\ Truthy(e.name)

\* The names of the entries of json.plugins that have one, in order.
NamesKept(json) ==
  LET entries == IF json.t = "obj" /\ json.plugins.t = "arr" THEN json.plugins.a ELSE <<>>
      named == SelectSeq(entries, IsNamedEntry)
  IN [i \in 1..Len(named) |-> named[i].name]

\* C18: the call of normalizePlugins on the loaded manifest does not raise,
\* and returns the named entries of json.plugins in their order (none when
\* plugins is absent or no array).
C18_NormalizeNeverRaises ==
  [][(pc = "loaded" /\ pc' # "loaded")
     => /\ pc' # "discoverThrew"
        /\ [i \in 1..Len(normalized') |-> normalized'[i].name] = NamesKept(loaded.json)]_vars

\* ------------------------------------------------------------------------
\* C20
\* ------------------------------------------------------------------------

\* An API failure of a scan: a tree request without a tree, a listing that
\* failed otherwise than by 404, a probe with a status that is not 404.
IsApiFailure(k) ==
  LET r == requests[k]
  IN \/ r.op = "tree" /\ r.answer # "ok"
     \/ r.op = "list" /\ r.answer \in {"500", "object"}
     \/ r.op = "probe" /\ r.answer = "500"

\* C20: the result of a plugin whose scan met an API failure other than a
\* 404 of a listing has at least one error.
C20_FailuresAreRecorded ==
  \A k \in 1..Len(requests) :
    (requests[k].plugin \in 1..Len(results) /\ IsApiFailure(k))
    => results[requests[k].plugin].errors # <<>>

\* ------------------------------------------------------------------------
\* C14
\* ------------------------------------------------------------------------

\* The redirects followed so far: each one made the next URL the one in hand.
HopsFollowed == ht_url

IsFollowed == ht_pc' = "sent" /\ ht_url' = ht_url + 1 /\ ht_sent' = ht_sent + 1

\* C14 as stated: a 3xx response with a Location that is a URL is followed
\* while fewer than 5 hops were made.
C14_Every3xxFollowed ==
  [][(/\ ht_pc = "sent"
      /\ ht_pc' # "rejected"
      /\ ht_res'.status >= 300 /\ ht_res'.status < 400
      /\ ht_res'.location = "url"
      /\ HopsFollowed < MaxRedirects)
     => IsFollowed]_vars

\* C14: a 301, 302, 303, 307 or 308 response with a Location that is a URL
\* is followed while fewer than 5 hops were made; the response after the
\* 5th hop is never followed, and is rejected when it is no 2xx; a 2xx
\* reached after at most 5 hops resolves with the body of the last URL;
\* no call issues more than 6 requests.
C14_AtMostFiveHops ==
  [][/\ ht_sent' <= MaxRedirects + 1
     /\ HopsFollowed' <= MaxRedirects
     /\ (/\ ht_pc = "sent" /\ ht_pc' # "rejected"
         /\ ht_res'.status \in {301, 302, 303, 307, 308}
         /\ ht_res'.location = "url")
        => IF HopsFollowed < MaxRedirects THEN IsFollowed ELSE ht_pc' = "body"
     /\ (ht_pc = "body" /\ ht_res.status \in {200, 204})
        => ht_out' = [kind |-> "resolved", data |-> BodyAt(HopsFollowed), status |-> 0]
     /\ (ht_pc = "body" /\ ht_res.status \notin {200, 204})
        => (ht_out'.kind = "rejected" /\ ht_out'.status = ht_res.status)]_vars

\* Five redirects were followed and the sixth request answered 200: the
\* call resolved with the body of the fifth Location.
C14_FiveHopsResolved ==
  /\ ht_pc = "resolved"
  /\ ht_sent = 6
  /\ ht_url = 5
  /\ ht_out.kind = "resolved" /\ ht_out.data = BodyAt(5)

\* ------------------------------------------------------------------------
\* C11
\* ------------------------------------------------------------------------

\* The run is over: it installed, returned without anything to install,
\* or was left by an exception.
RunOver == pc \in {"installed", "returned", "runThrew"}

IsSelectedResult(i) ==
  plan.selectedPlugins.all \/ results[i].name \in plan.selectedPlugins.names

\* <base>/hooks and <base>/skills, beside <base>/commands and
\* <base>/droids of the run.
HooksDir == AllDestDirs.hooks.s
SkillsDir == AllDestDirs.skills.s

HookInstalled(src) ==
  DestExists(destFs, PathJoin(HooksDir, flattenName(src, S_hooks) \o S_md))

SkillInstalled(src) ==
  \E f \in DOMAIN destFs :
    StartsWith(f, PathJoin(SkillsDir, flattenName(src, S_skills)) \o S_slash)

\* C11: when an install run is over, every hook discovered for a selected
\* plugin is a file under <base>/hooks and every discovered skill is a
\* directory under <base>/skills.
C11_AllFourInstalled ==
  RunOver
  => \A i \in 1..Len(results) :
       IsSelectedResult(i)
       => /\ \A k \in 1..Len(results[i].hooks) : HookInstalled(results[i].hooks[k])
          /\ \A k \in 1..Len(results[i].skills) : SkillInstalled(results[i].skills[k])

\* ------------------------------------------------------------------------
\* C15
\* ------------------------------------------------------------------------

\* Items j < k of one list, of different plugins, with one dest, k being
\* the last item of the list with that dest.
LaterWriterOfSameDest(list, j, k) ==
  /\ j < k
  /\ list[j].plugin # list[k].plugin
  /\ list[j].dest = list[k].dest
  /\ \A m \in (k + 1)..Len(list) : list[m].dest # list[k].dest

\* C15: after the installer has executed the plan, a dest that two items
\* of one type from different plugins share holds the content of the later
\* plugin's item, whatever force is.
C15_LastWriteWins ==
  pc = "installed"
  => \A kind \in {"commands", "droids"} :
       \A j, k \in 1..Len(plan.out[kind]) :
         LaterWriterOfSameDest(plan.out[kind], j, k)
         => /\ DestExists(destFs, plan.out[kind][k].dest)
            /\ destFs[plan.out[kind][k].dest] = ContentAt(plan.out[kind][k].src)

\* ------------------------------------------------------------------------
\* C16
\* ------------------------------------------------------------------------

\* The overwrite flag copyFile and downloadToFile are called with is off.
ForceOff == "force" \in DOMAIN confirmedArgs => ~confirmedArgs.force

SpinnerActive == fetchSpin = "running" \/ spinnerTimer = "running"

\* C19: a SIGINT that arrives while a spinner is active stops the spinner,
\* leaves the line of the terminal clean, and the process exits with 130.
C19_SigintStopsSpinner ==
  [][(pc # "interrupted" /\ pc' = "interrupted" /\ SpinnerActive)
     => /\ fetchSpin' # "running"
        /\ spinnerTimer' # "running"
        /\ terminal' = "clean"
        /\ exit' = [how |-> "exit", code |-> 130]]_vars

\* ------------------------------------------------------------------------
\* C21
\* ------------------------------------------------------------------------

\* The answer of the tree request plugin i made.
TreeAnswerOf(i) ==
  LET K == {k \in 1..Len(requests) : requests[k].op = "tree" /\ requests[k].plugin = i}
  IN IF K = {} THEN "none" ELSE requests[MaxOf(K)].answer

\* Whether plugin i asked the contents API for the listing of a path.
ListedViaApi(i, pathInRepo) ==
  \E k \in 1..Len(requests) :
    /\ requests[k].op = "list"
    /\ requests[k].plugin = i
    /\ requests[k].path = pathInRepo

\* A pushed result of a GitHub plugin whose scan ran through all sections.
ScannedGithub(i) ==
  /\ i \in 1..Len(results)
  /\ results[i].resolved.kind = "github"
  /\ TreeAnswerOf(i) # "none"
  /\ \A kind \in Sections : ~OverrideListThrows(results[i].resolved.overrides, kind)

\* C21: for a resource type without a file-list override, scanPluginGithub
\* takes the listing from the tree without a listing request exactly when
\* the tree request succeeded with a complete tree; when the tree request
\* failed or its response is marked truncated, it asks the contents API for
\* the listing of that path.
C21_FallsBackUnlessTreeComplete ==
  \A i \in 1..Len(results) :
    ScannedGithub(i) =>
      \A kind \in Sections :
        LET r == results[i].resolved
        IN OverrideOf(r.overrides, kind).t # "arr" =>
             (ListedViaApi(i, RemoteSectionPath(r.path, r.overrides, kind))
                <=> TreeAnswerOf(i) # "ok")

\* ------------------------------------------------------------------------
\* C22
\* ------------------------------------------------------------------------

\* The fields of a discovered plugin and the lists of the plan they feed.
PlanListOf == [commands |-> "commands", agents |-> "droids", hooks |-> "hooks",
               skills |-> "skills"]

RECURSIVE ErrorsOf(_)
ErrorsOf(I) ==
  IF I = {} THEN 0
  ELSE LET i == CHOOSE j \in I : TRUE
       IN Len(results[i].errors) + ErrorsOf(I \ {i})

RECURSIVE ResourcesOf(_, _)
ResourcesOf(I, field) ==
  IF I = {} THEN 0
  ELSE LET i == CHOOSE j \in I : TRUE
       IN Len(results[i][field]) + ResourcesOf(I \ {i}, field)

IsSelectedName(nm) == plan.selectedPlugins.all \/ nm \in plan.selectedPlugins.names

IsRepoInput ==
  \/ isOwnerRepoShorthand(input)
  \/ /\ isUrl(input)
     /\ ~parseGitHubRawUrl(input).ok
     /\ parseGitRepoUrl(Str(input)).provider \in {"github", "gitlab"}

\* C23: when a ref is given, the manifest is requested at that ref only,
\* for shorthand, GitHub URL and GitLab URL input alike: no request goes to
\* main or master, and the error raised is the one of the given ref.
C23_ExplicitRefOnly ==
  (refArg # <<>> /\ IsRepoInput)
  => /\ \A k \in 1..Len(requests) :
          requests[k].op = "manifest" => requests[k].ref = refArg
     /\ pc = "loadFailed" => loaded.error.ref = refArg

\* ------------------------------------------------------------------------
\* C24
\* ------------------------------------------------------------------------

\* The call returned a github or gitlab source for an object-form source.
ObjectResolvedRemote ==
  /\ rs_pc = "done"
  /\ rs_plugin.source.t = "obj"
  /\ rs_result.kind \in {"github", "gitlab"}

\* C24 as stated: the resolved ref is the source object's ref if it has
\* one, otherwise the context's ref if the context carries one, and 'main'
\* only when neither is present.
C24_ContextRefWhenCarried ==
  ObjectResolvedRemote
  => rs_result.ref = (IF Truthy(rs_plugin.source.o.ref) THEN rs_plugin.source.o.ref.s
                      ELSE IF rs_context.ref # <<>> THEN rs_context.ref
                      ELSE S_main)

\* C24, amended: the resolved ref is the source object's ref if it has
\* one; otherwise the context's ref when the context is of the same
\* provider as the resolved source (github for github, gitlab for gitlab);
\* otherwise 'main', also under a context of the other provider that
\* carries a ref.
C24_RefPrecedence ==
  ObjectResolvedRemote
  => rs_result.ref = (IF Truthy(rs_plugin.source.o.ref) THEN rs_plugin.source.o.ref.s
                      ELSE IF rs_context.kind = rs_result.kind /\ rs_context.ref # <<>>
                      THEN rs_context.ref
                      ELSE S_main)

\* An object source without a ref resolved under a context of its own
\* provider to the context's ref, which is not main.
C24_ContextRefTaken ==
  /\ ObjectResolvedRemote
  /\ ~Truthy(rs_plugin.source.o.ref)
  /\ rs_context.kind = rs_result.kind
  /\ rs_result.ref = rs_context.ref
  /\ rs_result.ref # S_main

\* ------------------------------------------------------------------------
\* C25
\* ------------------------------------------------------------------------

\* The call was made against the context of a generic URL.
ResolvedAgainstUrl == rs_pc = "done" /\ rs_context.kind = "url"

NamedEntries ==
  SelectSeq(IF loaded.json.t = "obj" /\ loaded.json.plugins.t = "arr"
            THEN loaded.json.plugins.a ELSE <<>>,
            IsNamedEntry)

\* C26: for each of commands, agents, hooks and skills, the override the
\* manifest entry of a plugin declares is the override its scanner is
\* called with (resolved.overrides), unchanged by normalizePlugins and
\* resolvePluginSource.
C26_OverridesReachScanner ==
  \A i \in 1..Len(results) :
    \A kind \in Sections :
      OverrideOf(results[i].resolved.overrides, kind) = NamedEntries[i][kind]

\* ------------------------------------------------------------------------
\* C27
\* ------------------------------------------------------------------------

\* C27: the plan item of a hook whose source file is not Markdown has as
\* dest the hooks destination directory joined with the file's own name;
\* no '.md' is appended to it.
C27_HookKeepsItsName ==
  (pc = "planned" /\ ~plan.out.threw)
  => \A k \in 1..Len(plan.out.hooks) :
       LET it == plan.out.hooks[k]
       IN ~IsMarkdownName(it.src)
            => /\ it.dest = PathJoin(plan.dirs.hooks.s, Basename(it.src))
               /\ ~EndsWith(it.dest, S_md)

\* ------------------------------------------------------------------------
\* C28
\* ------------------------------------------------------------------------

\* The download awaited was called with force for a dest that existed, and
\* this step is its failure: a status outside 2xx (resolved 'skipped') or
\* an error of the request (rejected).
ForcedDownloadFails ==
  /\ pc = "download"
  /\ confirmedArgs.force
  /\ copyResults[Len(copyResults)].existed
  /\ \/ pc' = "runThrew"
     \/ /\ pc' \in {"download", "installed"}
        /\ copyResults'[Len(copyResults)].result = "skipped"

\* C28: when downloadToFile is called with force for a dest that exists
\* and the download fails, the file is still there afterwards, with
\* content (neither removed nor left empty).
C28_FailedDownloadKeepsFile ==
  [][ForcedDownloadFails
       => LET dest == copyResults[Len(copyResults)].dest
          IN /\ DestExists(destFs', dest)
             /\ destFs'[dest] # Truncated]_vars

\* ------------------------------------------------------------------------
\* C29
\* ------------------------------------------------------------------------

\* The copies and downloads of the run that returned 'written'.
WrittenCalls == {k \in 1..Len(copyResults) : copyResults[k].result = "written"}

\* C29: after an install run, created + overwritten + skipped is the
\* number of plan items for which copyFile or downloadToFile was called,
\* and created + overwritten is the number of those calls that returned
\* 'written', also when two items of one list share their name.
C29_CountsAddUp ==
  pc = "installed"
  => LET c == CountResults(plan.out, copyResults)
     IN /\ c.created + c.overwritten + c.skipped = Len(copyResults)
        /\ c.created + c.overwritten = Cardinality(WrittenCalls)

\* ------------------------------------------------------------------------
\* C30
\* ------------------------------------------------------------------------

\* The prompts of the wizard.
WizardPrompts ==
  {"scope", "source", "installAll", "commands", "droids", "marketplace", "plugins", "force"}

\* The wizard stands at the scope step with nothing chosen.
AtScopeCleared ==
  wz_step = "scope" /\ wz_scopeChoice = "null" /\ wz_srcChoice = "null" /\ wz_flow = <<>>

\* A step in which Esc ends a prompt leaves the wizard at the scope step, cleared.
EscRestarts ==
  (wz_key'.key = "escape" /\ wz_key'.at \in WizardPrompts) =>
    (AtScopeCleared' /\ wz_args' = wz_args /\ wz_written' = wz_written)

\* Args are handed over only with the overwrite prompt answered, and files are
\* written only after the hand-over.
HandedAfterForce ==
  /\ wz_args # <<>> => ("force" \in wz_answered /\ wz_flow.step = "returned")
  /\ wz_written => wz_args # <<>>
  /\ wz_step \in {"handed", "installed"} <=> wz_args # <<>>

\* C30: in the guided flow, Esc at any prompt (scope, source, or a step of the
\* templates or marketplace sub-flow) restarts the wizard at the scope step with
\* the scope and source choices cleared; the wizard hands install arguments to
\* the installer only after the final overwrite prompt has been answered, and no
\* file is written before that.
C30_EscRestartsAndHandsOverLast ==
  [][EscRestarts]_vars /\ []HandedAfterForce

\* The wizard was restarted with Esc, then completed, and the installer wrote.
C30_RestartedThenInstalled ==
  /\ wz_resets >= 1
  /\ wz_written
  /\ "force" \in wz_answered

====
